---- MODULE Spec2Model ----
(***************************************************************************)
(* State-machine model of the gitcrumbs VS Code extension:                 *)
(*   - TrackRunner      (infra/trackRunner.ts): the tracking subprocess    *)
(*   - DiffTreeView     (ui/diffTree.ts): the A/B pair and its diff        *)
(*   - TimelineTreeView (ui/timelineTree.ts): snapshots and the cursor     *)
(*   - Cli              (infra/cli.ts): one-shot subprocess runs               *)
(*   - askToStartTrackingForRepo (util/selectRepo.ts): the start policy    *)
(*   - the start/stop commands, automatic stops and activate()             *)
(*     (extension.ts)                                                      *)
(*   - the two table parsers on outputs with stray lines                   *)
(* The extension host is single-threaded: every action below is one run    *)
(* of code between two suspension points (await, event callback).          *)
(***************************************************************************)
EXTENDS Integers, Sequences, FiniteSets, Bags, TLC

\* ---------------------------------------------------------------- bounds
\* Tracking subprocesses that may be spawned in one behaviour.
MaxProcs == 3
\* Largest snapshot id the user can pick as A or B.
MaxId == 2
\* reload() calls that may be suspended at an await at once.
MaxInFlight == 2
\* refresh() calls of the timeline in one behaviour.
MaxRefresh == 2
\* Lines the tracking subprocesses write to stdout in one behaviour.
MaxLines == 2
\* Cli.run / Cli.runRaw calls in one behaviour.
MaxCalls == 2
\* Data events one subprocess run delivers on each of its streams.
MaxData == 1
\* Policy calls and start/stop command handlers that may be suspended at once.
MaxAsks == 2
\* Logical rows of a printed snapshot table.
MaxRows == 2

\* Calls of the timeline commands (snapshot, restore, next, previous, rename).
MaxCmds == 1

\* ------------------------------------------------------- optional values
\* A TypeScript `T | undefined` / `T | null` is the empty tuple or <<v>>.
None == <<>>

Some(v) == <<v>>

\* -------------------------------------------------------------- state
VARIABLES
  repoPath,    \* Store.repoPath(): None or Some(path)
  proc,        \* TrackRunner.proc: None or Some(p)
  isRunning,   \* TrackRunner.isRunning
  procState,   \* p -> "unspawned" | "alive" | "killed" | "closed"
  stateEvents, \* values fired on TrackRunner.emitter, in order
  lastOp,      \* the TrackRunner method or handler that ran last
  infoShown,   \* texts passed to showInformationMessage by start()
  pipe,        \* p -> stdout of process p written and not yet delivered
  linesOut,    \* lines the tracking subprocesses have written
  sentinelsOut, \* those of them that contain "Snapshot created:"
  snapshotEvents, \* number of snapshotEmitter.fire() calls
  revision,    \* Store.revision
  a,           \* DiffTreeView.a
  b,           \* DiffTreeView.b
  changes,     \* DiffTreeView.changes
  loading,     \* DiffTreeView.loading
  loadKey,     \* DiffTreeView.loadKey
  diffRuns,    \* bag of reload() frames suspended at an await
  script,      \* None or Some(the scripted setA/setB sequence and its position)
  issued,      \* bag of the <<a, b>> diffs started since the script began
  snapshots,   \* TimelineTreeView.snapshots
  currentId,   \* TimelineTreeView.currentId
  refreshes,   \* r -> the frame of the r-th refresh() call
  prefs,       \* workspaceState["gitcrumbs.trackingPreferences"]
  asks,        \* bag of policy and start/stop command frames at an await
  asked,       \* the last askToStartTrackingForRepo call: None or Some(call)
  cliCalls,    \* c -> the frame of the c-th Cli.run / Cli.runRaw call
  tableIn,     \* the snapshot table `gitcrumbs timeline` is printing
  parseOut,    \* None or Some(rows parseTimelineFromCli returned for it)
  docIn,       \* a command output being printed, stray lines included
  docOut,      \* None or Some(what the view's parser returned for it)
  activation,  \* how far activate() has run: "constructed" | "active"
  subscribed,  \* activate() has subscribed to trackRunner.onSnapshotCreated
  autoInit,    \* the maybeAutoInitGitcrumbsOnLoad call: None or Some(frame)
  tlCmds,      \* c -> the frame of the c-th timeline command call
  selecting    \* the selectRepo call: None or Some(frame)

trackVars ==
  <<proc, isRunning, procState, stateEvents, lastOp, infoShown, pipe, linesOut,
    sentinelsOut, snapshotEvents, revision>>

diffVars == <<a, b, changes, loading, loadKey, diffRuns, script, issued>>

timelineVars == <<snapshots, currentId, refreshes>>

policyVars == <<prefs, asks, asked>>

cliVars == <<cliCalls>>

parseVars == <<tableIn, parseOut, docIn, docOut>>

activateVars == <<activation, subscribed, autoInit>>

commandVars == <<tlCmds, selecting>>

\* The state of the components added after the three views.
moreVars == <<policyVars, cliVars, parseVars, activateVars, commandVars>>

vars == <<repoPath, trackVars, diffVars, timelineVars, moreVars>>

Procs == 1..MaxProcs

Repos == {"repoA", "repoB"}

\* The frame of a timeline command that has not been called yet; `res` is the
\* result of its gitcrumbs command once that has ended.
NewCommand == [name |-> "", pc |-> "idle", res |-> None]

\* The frame of a refresh() call that has not been made yet.
NewFrame == [pc |-> "idle", timelineRes |-> None, statusRes |-> None, settled |-> "pending"]

\* ============================================================== text
\* Command output is a sequence of lines (text.split(/\r?\n/)); a line is the
\* sequence of its tokens: border glyphs, commas, colour escapes and the words
\* between them.  White space only separates tokens, so \s* and trim() are
\* built into the representation.
\* The two border glyphs of /[│|]/: the ASCII bar and U+2502.
Bars == {"|", "U+2502"}

\* The escape sequences /\x1B\[[0-9;]*m/ that stripAnsi removes.
AnsiTokens == {"ESC[0m", "ESC[32m"}

\* The words matching /^\d+$/ that occur in the modelled outputs.
DigitWords == {"0", "1", "2", "3", "4", "00", "01", "02", "03"}

\* Number(word) for a word of DigitWords.
NumberOf(w) ==
  CASE w \in {"0", "00"} -> 0
    [] w \in {"1", "01"} -> 1
    [] w \in {"2", "02"} -> 2
    [] w \in {"3", "03"} -> 3
    [] w = "4" -> 4

DigitChar == <<"0", "1", "2", "3", "4", "5", "6", "7", "8", "9">>

\* String(n) / `${n}` for a non-negative integer.
RECURSIVE String(_)
String(n) ==
  IF n < 10 THEN DigitChar[n + 1]
  ELSE String(n \div 10) \o DigitChar[(n % 10) + 1]

\* words.join(" ")
RECURSIVE JoinWords(_)
JoinWords(ws) ==
  IF ws = <<>> THEN ""
  ELSE IF Len(ws) = 1 THEN ws[1]
  ELSE ws[1] \o " " \o JoinWords(Tail(ws))

\* DiffTreeView.stripAnsi
stripAnsi(text) ==
  [i \in 1..Len(text) |-> LET NotAnsi(t) == t \notin AnsiTokens
                          IN SelectSeq(text[i], NotAnsi)]

\* cell.split(","): the groups of tokens between commas.
RECURSIVE SplitComma(_)
SplitComma(ts) ==
  IF \A i \in 1..Len(ts) : ts[i] # ","
    THEN <<ts>>
    ELSE LET k == CHOOSE i \in 1..Len(ts) :
                    ts[i] = "," /\ \A j \in 1..(i - 1) : ts[j] # ","
         IN <<SubSeq(ts, 1, k - 1)>> \o SplitComma(SubSeq(ts, k + 1, Len(ts)))

\* ====================================================== DiffTreeView
Ids == 0..MaxId

\* What a command handler may be given as `item`.
Items ==
  [tag : {"undefined", "other"}, n : {0}]
    \cup [tag : {"timelineItem", "row", "number"}, n : Ids]

\* DiffTreeView.coerceId
coerceId(item) ==
  IF item.tag = "undefined" THEN None
  ELSE IF item.tag = "timelineItem" THEN Some(item.n)   \* item.snapshotId
  ELSE IF item.tag = "row" THEN Some(item.n)            \* item.id
  ELSE IF item.tag = "number" THEN Some(item.n)
  ELSE None

\* JavaScript truthiness of a `number | undefined`: `!this.a` holds for
\* undefined and for 0.
Truthy(x) == x # None /\ x[1] # 0

\* `${this.a}:${this.b}`
DiffKey(x, y) == String(x) \o ":" \o String(y)

Categories == {"Added", "Deleted", "Modified"}

\* toKind that files a deleted path under Modified.
toKind_DeletedAsModified(c) == IF c = "Added" THEN "A" ELSE "M"

toKind(c) == IF c = "Added" THEN "A" ELSE IF c = "Deleted" THEN "D" ELSE "M"

\* The `row` regular expression of parseGitcrumbsDiff.
RowMatches(line) ==
  /\ Len(line) >= 5
  /\ line[1] \in Bars
  /\ line[2] \in Categories
  /\ line[3] \in Bars
  /\ line[4] \in DigitWords
  /\ line[5] \in Bars

\* Group 3 of `row`: the lazy (.*?) before the optional closing border.
FilesCell(line) ==
  IF line[Len(line)] \in Bars /\ Len(line) > 5
    THEN SubSeq(line, 6, Len(line) - 1)
    ELSE SubSeq(line, 6, Len(line))

\* RowChanges without the test of the count.
RowChanges_CountIgnored(line) ==
  IF ~RowMatches(line) THEN <<>>
  ELSE LET filesCell == FilesCell(line)
           groups == SplitComma(filesCell)
           NonEmpty(g) == g # <<>>
           names == SelectSeq(groups, NonEmpty)
       IN IF filesCell = <<>> \/ filesCell = <<"(none)">>
            THEN <<>>
            ELSE [i \in 1..Len(names) |->
                    [path |-> JoinWords(names[i]), kind |-> toKind(line[2])]]

\* The entries one line contributes.
RowChanges(line) ==
  IF ~RowMatches(line) THEN <<>>
  ELSE LET count == NumberOf(line[4])
           filesCell == FilesCell(line)
           groups == SplitComma(filesCell)
           NonEmpty(g) == g # <<>>
           names == SelectSeq(groups, NonEmpty)
       IN IF count = 0 \/ filesCell = <<>> \/ filesCell = <<"(none)">>
            THEN <<>>
            ELSE [i \in 1..Len(names) |->
                    [path |-> JoinWords(names[i]), kind |-> toKind(line[2])]]

\* DiffTreeView.parseGitcrumbsDiff
RECURSIVE parseGitcrumbsDiff(_)
parseGitcrumbsDiff(text) ==
  IF text = <<>> THEN <<>>
  ELSE RowChanges(Head(text)) \o parseGitcrumbsDiff(Tail(text))

\* What `gitcrumbs diff x y --all` prints: the three category rows of the
\* changeset between snapshots x and y, which is empty when x = y.
DiffStdout(x, y) ==
  IF x = y
    THEN << <<"+------+">>,
            <<"|", "Category", "|", "Count", "|", "Files", "|">>,
            <<"|", "Added", "|", "0", "|", "(none)", "|">>,
            <<"|", "Modified", "|", "0", "|", "(none)", "|">>,
            <<"|", "Deleted", "|", "0", "|", "(none)", "|">> >>
    ELSE << <<"+------+">>,
            <<"U+2502", "Category", "U+2502", "Count", "U+2502", "Files", "U+2502">>,
            <<"U+2502", "ESC[32m", "Added", "ESC[0m", "U+2502", "1", "U+2502",
              "f" \o String(x) \o "_" \o String(y), "U+2502">>,
            <<"U+2502", "Modified", "U+2502", "2", "U+2502",
              "a.txt", ",", "sub", "dir/b.txt", "U+2502">>,
            <<"U+2502", "Deleted", "U+2502", "0", "U+2502", "(none)", "U+2502">> >>

\* The exit codes a gitcrumbs command can end with.
ExitCodes == {0, 1}

\* ================================================== TimelineTreeView
\* The index in `line` of its k-th border glyph, 0 when it has fewer.
RECURSIVE BarAt(_, _, _)
BarAt(line, k, from) ==
  IF from > Len(line) THEN 0
  ELSE IF line[from] \in Bars
    THEN (IF k = 1 THEN from ELSE BarAt(line, k - 1, from + 1))
    ELSE BarAt(line, k, from + 1)

\* grab6: the six trimmed cells of a line, None when the regular expression
\* (a border, six lazy groups each closed by a border, end of line) fails.
\* The lazy groups 1..5 stop at the next border; group 6 runs to the border
\* that ends the line.
grab6(line) ==
  IF \/ BarAt(line, 7, 1) = 0
     \/ BarAt(line, 1, 1) # 1
     \/ line[Len(line)] \notin Bars
    THEN None
    ELSE Some([k \in 1..6 |->
           JoinWords(SubSeq(line, BarAt(line, k, 1) + 1,
                     (IF k = 6 THEN Len(line) ELSE BarAt(line, k + 1, 1)) - 1))])

\* `s || null`
OrNull(s) == IF s = "" THEN None ELSE Some(s)

\* flush(): the SnapshotRow of the row being built.
FlushRow(cur) ==
  [id |-> cur.id,
   label |-> cur.label,
   created_at |-> IF cur.createdDateTime = None THEN "" ELSE cur.createdDateTime[1],
   branch |-> OrNull(JoinWords(cur.branchParts)),
   summary |-> OrNull(JoinWords(cur.summaryParts)),
   restored_from_snapshot_id |-> cur.resumed]

\* flush() on the parser state st = [rows, cur].
Flush(st) ==
  IF st.cur = None THEN st
  ELSE [rows |-> Append(st.rows, FlushRow(st.cur[1])), cur |-> None]

\* Mutant of ParseLine: a continuation line closes the row being built and
\* opens a row of its own.
ParseLine_ContinuationIsRow(st, line) ==
  LET cells == grab6(line) IN
  IF cells = None THEN st
  ELSE LET c == cells[1] IN
    IF c[1] \in DigitWords
      THEN [rows |-> Flush(st).rows,
            cur |-> Some([id |-> NumberOf(c[1]),
                          label |-> OrNull(c[2]),
                          createdDateTime |-> OrNull(c[3]),
                          branchParts |-> IF c[4] # "" THEN <<c[4]>> ELSE <<>>,
                          summaryParts |-> IF c[5] # "" THEN <<c[5]>> ELSE <<>>,
                          resumed |-> IF c[6] \in DigitWords
                                        THEN Some(NumberOf(c[6])) ELSE None])]
      ELSE IF st.cur = None THEN st
      ELSE [rows |-> Flush(st).rows,
            cur |-> Some([st.cur[1] EXCEPT
                      !.createdDateTime = OrNull(c[3]),
                      !.branchParts = IF c[4] # "" THEN <<c[4]>> ELSE <<>>,
                      !.summaryParts = IF c[5] # "" THEN <<c[5]>> ELSE <<>>])]

\* One iteration of the line loop of parseTimelineFromCli.
ParseLine(st, line) ==
  LET cells == grab6(line) IN
  IF cells = None THEN st
  ELSE LET c == cells[1] IN
    IF c[1] \in DigitWords
      THEN \* new logical row
           [rows |-> Flush(st).rows,
            cur |-> Some([id |-> NumberOf(c[1]),
                          label |-> OrNull(c[2]),
                          createdDateTime |-> OrNull(c[3]),
                          branchParts |-> IF c[4] # "" THEN <<c[4]>> ELSE <<>>,
                          summaryParts |-> IF c[5] # "" THEN <<c[5]>> ELSE <<>>,
                          resumed |-> IF c[6] \in DigitWords
                                        THEN Some(NumberOf(c[6])) ELSE None])]
      ELSE IF st.cur = None THEN st
      ELSE \* continuation line
           LET cur == st.cur[1] IN
           [rows |-> st.rows,
            cur |-> Some([cur EXCEPT
                      !.createdDateTime =
                         IF c[3] # "" /\ @ = None THEN Some(c[3]) ELSE @,
                      !.branchParts = IF c[4] # "" THEN Append(@, c[4]) ELSE @,
                      !.summaryParts = IF c[5] # "" THEN Append(@, c[5]) ELSE @,
                      !.resumed = IF c[6] \in DigitWords
                                    THEN Some(NumberOf(c[6])) ELSE @])]

RECURSIVE ParseLines(_, _)
ParseLines(st, lines) ==
  IF lines = <<>> THEN st
  ELSE ParseLines(ParseLine(st, Head(lines)), Tail(lines))

\* TimelineTreeView.parseTimelineFromCli
parseTimelineFromCli(text) ==
  LET StartsWithBar(l) == l # <<>> /\ l[1] \in Bars
      lines == SelectSeq(text, StartsWithBar)
  IN Flush(ParseLines([rows |-> <<>>, cur |-> None], lines)).rows

\* All tokens of a text in order: \s* also matches the line breaks.
RECURSIVE Flatten(_)
Flatten(text) ==
  IF text = <<>> THEN <<>> ELSE Head(text) \o Flatten(Tail(text))

\* The words that /Cursor snapshot id:/i matches.
CursorWords == <<{"Cursor", "cursor"}, {"snapshot", "Snapshot"}, {"id:", "ID:"}>>

\* TimelineTreeView.parseCurrentIdFromStatus
parseCurrentIdFromStatus(text) ==
  LET ts == Flatten(text)
      Hit(i) == /\ i + 3 <= Len(ts)
                /\ \A k \in 1..3 : ts[i + k - 1] \in CursorWords[k]
                /\ ts[i + 3] \in DigitWords
      hits == {i \in 1..Len(ts) : Hit(i)}
  IN IF hits = {} THEN None
     ELSE LET first == CHOOSE i \in hits : \A j \in hits : i <= j
          IN Some(NumberOf(ts[first + 3]))

\* Insert row x into a sequence sorted by (a, b) => b.id - a.id, after the
\* rows that compare equal (Array.prototype.sort is stable).
RECURSIVE InsertDesc(_, _)
InsertDesc(x, sorted) ==
  IF sorted = <<>> THEN <<x>>
  ELSE IF Head(sorted).id >= x.id
    THEN <<Head(sorted)>> \o InsertDesc(x, Tail(sorted))
    ELSE <<x>> \o sorted

\* Mutant of SortDesc: the sort call is missing.
SortDesc_Missing(rows) == rows

\* this.snapshots.sort((a, b) => b.id - a.id)
RECURSIVE SortDesc(_)
SortDesc(rows) ==
  IF rows = <<>> THEN <<>>
  ELSE InsertDesc(rows[Len(rows)], SortDesc(SubSeq(rows, 1, Len(rows) - 1)))

\* ============================================================= Store
\* The UTF-16 code units of the modelled repository paths, "/a" and "/b".
PathCodes(path) == IF path = "repoA" THEN <<47, 97>> ELSE <<47, 98>>

\* The loop of repoIdForPath: h = (h << 5) - h + c; h |= 0.  The modelled
\* paths keep h below 2^31, where `h |= 0` changes nothing.
RECURSIVE HashFrom(_, _)
HashFrom(h, cs) ==
  IF cs = <<>> THEN h
  ELSE HashFrom((h * 32) - h + Head(cs), Tail(cs))

Digits36 ==
  <<"0", "1", "2", "3", "4", "5", "6", "7", "8", "9", "a", "b", "c", "d", "e",
    "f", "g", "h", "i", "j", "k", "l", "m", "n", "o", "p", "q", "r", "s", "t",
    "u", "v", "w", "x", "y", "z">>

\* n.toString(36) for a non-negative integer.
RECURSIVE ToString36(_)
ToString36(n) ==
  IF n < 36 THEN Digits36[n + 1]
  ELSE ToString36(n \div 36) \o Digits36[(n % 36) + 1]

\* Store.repoIdForPath
repoIdForPath(path) ==
  LET h == HashFrom(0, PathCodes(path))
  IN ToString36(IF h < 0 THEN 0 - h ELSE h)

RepoIds == {repoIdForPath(path) : path \in Repos}

TrackingPreference == {"auto", "never"}

\* The preferences record before anything is stored: `{}`.
NoPrefs == [id \in {} |-> "auto"]

\* Store.getTrackingPreference
getTrackingPreference(repoId) ==
  IF repoId \in DOMAIN prefs THEN Some(prefs[repoId]) ELSE None

\* Store.setTrackingPreference: the record the call leaves in workspaceState.
setTrackingPreference(repoId, pref) ==
  IF repoId \in DOMAIN prefs /\ prefs[repoId] = pref THEN prefs
  ELSE [id \in DOMAIN prefs \cup {repoId} |->
          IF id = repoId THEN pref ELSE prefs[id]]

\* =============================================================== Cli
Calls == 1..MaxCalls

\* The frame of a Cli.run / Cli.runRaw call that has not been made yet.
\*   kind:     "run" | "runRaw"
\*   child:    "none" | "alive" | "spawnFailed" | "errored" | "closed" | "dead"
\*   exit:     how the subprocess ended: "exit0" | "exit1" | "signal" | "spawn"
\*   result:   the CliResult the promise was resolved with
\*   uncaught: an exception left the call's event handlers
NewCall ==
  [kind |-> "none", child |-> "none", exit |-> "none", stdout |-> "",
   stderr |-> "", nOut |-> 0, nErr |-> 0, result |-> None, uncaught |-> FALSE]

\* What one "data" event of a stream can carry.
Chunks == {"A", "B"}

\* The negative errno a failed spawn reports as the code of "close"
\* (ENOENT, EACCES).
SpawnErrnos == {-2, -13}

\* The binary names: this.bin of the Cli, and "git" for runRaw.
BinOf(kind) == IF kind = "run" THEN "gitcrumbs" ELSE "git"

\* resolve(r) of the promise of frame f: only the first call has an effect.
Resolve(f, r) == IF f.result = None THEN Some(r) ELSE f.result

\* ------------------------------------------------------------------ Init
\* The state after activate() has constructed Store, TrackRunner and the views.
Init ==
  /\ repoPath \in {None} \cup {Some(p) : p \in Repos}
  /\ proc = None
  /\ isRunning = FALSE
  /\ procState = [p \in Procs |-> "unspawned"]
  /\ stateEvents = <<>>
  /\ lastOp = "none"
  /\ infoShown = {}
  /\ pipe = [p \in Procs |-> <<>>]
  /\ linesOut = 0
  /\ sentinelsOut = 0
  /\ snapshotEvents = 0
  /\ revision = 0
  /\ a = None
  /\ b = None
  /\ changes = <<>>
  /\ loading = FALSE
  /\ loadKey = None
  /\ diffRuns = EmptyBag
  /\ script = None
  /\ issued = EmptyBag
  /\ snapshots = <<>>
  /\ currentId = None
  /\ refreshes = [r \in 1..MaxRefresh |-> NewFrame]
  /\ prefs = NoPrefs
  /\ asks = EmptyBag
  /\ asked = None
  /\ cliCalls = [c \in 1..MaxCalls |-> NewCall]
  /\ tableIn = None
  /\ parseOut = None
  /\ docIn = None
  /\ docOut = None
  /\ activation = "constructed"
  /\ subscribed = FALSE
  /\ autoInit = None
  /\ tlCmds = [c \in 1..MaxCmds |-> NewCommand]
  /\ selecting = None

\* ------------------------------------------------------- configuration
\* The gitcrumbs.repoPath setting / first workspace folder changes: every later
\* Store.repoPath() call reads the new value.
ChangeRepoPath ==
  /\ \E p \in {None} \cup {Some(q) : q \in Repos} :
       /\ p # repoPath
       /\ repoPath' = p
  /\ UNCHANGED <<trackVars, diffVars, timelineVars, moreVars>>

\* ======================================================= TrackRunner
\* cli.runBackground: child processes are handed out in spawn order.
CanSpawn(p) ==
  /\ procState[p] = "unspawned"
  /\ \A q \in Procs : q < p => procState[q] # "unspawned"

\* Processes that were spawned and whose close event has not happened yet.
AliveProcs == {p \in Procs : procState[p] \in {"alive", "killed"}}

\* The argument of showInformationMessage in start().
OpenRepoFirst == "Open a repository first."

\* Mutant of start: the `if (!repo)` branch is missing.
start_NoRepoCheck ==
  /\ lastOp' = "start"
  /\ IF proc # None
       THEN UNCHANGED <<proc, isRunning, procState, stateEvents>>
       ELSE \E p \in Procs :
              /\ CanSpawn(p)
              /\ procState' = [procState EXCEPT ![p] = "alive"]
              /\ proc' = Some(p)
              /\ isRunning' = TRUE
              /\ stateEvents' = Append(stateEvents, TRUE)
  /\ UNCHANGED <<infoShown, pipe, linesOut, sentinelsOut, snapshotEvents, revision>>

\* TrackRunner.start(), on the fields of TrackRunner.
start ==
  /\ lastOp' = "start"
  /\ IF proc # None
       THEN UNCHANGED <<proc, isRunning, procState, stateEvents, infoShown>>
       ELSE IF repoPath = None
         THEN /\ infoShown' = infoShown \cup {OpenRepoFirst}
              /\ UNCHANGED <<proc, isRunning, procState, stateEvents>>
         ELSE /\ \E p \in Procs :
                   /\ CanSpawn(p)
                   /\ procState' = [procState EXCEPT ![p] = "alive"]
                   /\ proc' = Some(p)
                   /\ isRunning' = TRUE
                   /\ stateEvents' = Append(stateEvents, TRUE)
              /\ UNCHANGED infoShown
  /\ UNCHANGED <<pipe, linesOut, sentinelsOut, snapshotEvents, revision>>

\* A command or the start policy calls trackRunner.start().
TrackStart ==
  /\ start
  /\ UNCHANGED <<repoPath, diffVars, timelineVars, moreVars>>

\* ChildProcess.kill(): the signal is sent, the close event comes later.
Kill(st) == IF st = "alive" THEN "killed" ELSE st

\* Mutant of stop: the `if (!this.proc) return` guard is missing.
stop_NoGuard ==
  /\ lastOp' = "stop"
  /\ procState' = IF proc = None THEN procState
                  ELSE [procState EXCEPT ![proc[1]] = Kill(@)]
  /\ proc' = None
  /\ isRunning' = FALSE
  /\ stateEvents' = Append(stateEvents, FALSE)
  /\ UNCHANGED <<infoShown, pipe, linesOut, sentinelsOut, snapshotEvents, revision>>

\* TrackRunner.stop(), on the fields of TrackRunner.
stop ==
  /\ lastOp' = "stop"
  /\ IF proc = None
       THEN UNCHANGED <<proc, isRunning, procState, stateEvents>>
       ELSE /\ procState' = [procState EXCEPT ![proc[1]] = Kill(@)]
            /\ proc' = None
            /\ isRunning' = FALSE
            /\ stateEvents' = Append(stateEvents, FALSE)
  /\ UNCHANGED <<infoShown, pipe, linesOut, sentinelsOut, snapshotEvents, revision>>

\* A command, deactivate() or selectRepo calls trackRunner.stop().
TrackStop ==
  /\ stop
  /\ UNCHANGED <<repoPath, diffVars, timelineVars, moreVars>>

\* Mutant of TrackOnClose: the handler clears the fields and fires nothing.
TrackOnClose_Silent(p) ==
  /\ procState[p] \in {"alive", "killed"}
  /\ pipe[p] = <<>>
  /\ lastOp' = "close"
  /\ procState' = [procState EXCEPT ![p] = "closed"]
  /\ proc' = None
  /\ isRunning' = FALSE
  /\ UNCHANGED <<stateEvents, infoShown, pipe, linesOut, sentinelsOut,
                 snapshotEvents, revision>>
  /\ UNCHANGED <<repoPath, diffVars, timelineVars, moreVars>>

\* The "close" handler registered by start(): it runs when process p has ended,
\* by itself or after a kill, and its streams have been drained; it acts on
\* `this`, whichever process `this.proc` is.
TrackOnClose(p) ==
  /\ procState[p] \in {"alive", "killed"}
  /\ pipe[p] = <<>>
  /\ lastOp' = "close"
  /\ procState' = [procState EXCEPT ![p] = "closed"]
  /\ proc' = None
  /\ isRunning' = FALSE
  /\ stateEvents' = Append(stateEvents, FALSE)
  /\ UNCHANGED <<infoShown, pipe, linesOut, sentinelsOut, snapshotEvents, revision>>
  /\ UNCHANGED <<repoPath, diffVars, timelineVars, moreVars>>

\* The life cycle of the supervisor: calls of start() and stop(), and the
\* close events of the subprocesses.
NextTrack ==
  \/ ChangeRepoPath
  \/ TrackStart
  \/ TrackStop
  \/ \E p \in Procs : TrackOnClose(p)

SpecTrack == Init /\ [][NextTrack]_vars

\* ------------------------------------------------ DiffTreeView actions
\* The frame of a reload() call suspended at `await this.cli.run(["diff", a, b,
\* "--all"], repo)` (phase "run") or at `await this.cli.showError(..)`.
DiffFrame(x, y, phase) == [a |-> x, b |-> y, phase |-> phase]

\* Diff subprocesses that have been started and have not completed.
RunningDiffs == {f \in BagToSet(diffRuns) : f.phase = "run"}

\* The diffs started since the script began, after one more for <<x, y>>.
Issue(x, y) ==
  IF script = None THEN issued ELSE issued (+) SetToBag({<<x, y>>})

\* reload() that returns whenever a diff is loading, whatever its key.
reload_IgnoresKey(na, nb) ==
  IF ~Truthy(na) \/ ~Truthy(nb) \/ repoPath = None
    THEN /\ changes' = <<>>
         /\ loadKey' = None
         /\ UNCHANGED <<loading, diffRuns, issued>>
    ELSE IF loading
      THEN UNCHANGED <<changes, loading, loadKey, diffRuns, issued>>
      ELSE /\ BagCardinality(diffRuns) < MaxInFlight
           /\ loading' = TRUE
           /\ loadKey' = Some(DiffKey(na[1], nb[1]))
           /\ diffRuns' = diffRuns (+) SetToBag({DiffFrame(na[1], nb[1], "run")})
           /\ issued' = Issue(na[1], nb[1])
           /\ UNCHANGED changes

\* reload() with the test of the configured repository left out.
reload_NoRepoCheck(na, nb) ==
  IF ~Truthy(na) \/ ~Truthy(nb)
    THEN /\ changes' = <<>>
         /\ loadKey' = None
         /\ UNCHANGED <<loading, diffRuns, issued>>
    ELSE IF loading /\ loadKey = Some(DiffKey(na[1], nb[1]))
      THEN UNCHANGED <<changes, loading, loadKey, diffRuns, issued>>
      ELSE /\ BagCardinality(diffRuns) < MaxInFlight
           /\ loading' = TRUE
           /\ loadKey' = Some(DiffKey(na[1], nb[1]))
           /\ diffRuns' = diffRuns (+) SetToBag({DiffFrame(na[1], nb[1], "run")})
           /\ issued' = Issue(na[1], nb[1])
           /\ UNCHANGED changes

\* DiffTreeView.reload(), up to its first await, with this.a = na, this.b = nb.
reload(na, nb) ==
  IF ~Truthy(na) \/ ~Truthy(nb) \/ repoPath = None
    THEN /\ changes' = <<>>
         /\ loadKey' = None
         /\ UNCHANGED <<loading, diffRuns, issued>>
    ELSE IF loading /\ loadKey = Some(DiffKey(na[1], nb[1]))
      THEN UNCHANGED <<changes, loading, loadKey, diffRuns, issued>>
      ELSE /\ BagCardinality(diffRuns) < MaxInFlight
           /\ loading' = TRUE
           /\ loadKey' = Some(DiffKey(na[1], nb[1]))
           /\ diffRuns' = diffRuns (+) SetToBag({DiffFrame(na[1], nb[1], "run")})
           /\ issued' = Issue(na[1], nb[1])
           /\ UNCHANGED changes

\* DiffTreeView.setA(item)
setA(item) ==
  /\ a' = coerceId(item)
  /\ b' = b
  /\ reload(a', b')

\* DiffTreeView.setB(item)
setB(item) ==
  /\ b' = coerceId(item)
  /\ a' = a
  /\ reload(a', b')

\* The gitcrumbs.setSnapshotA command: setA with any argument.
DiffSetA ==
  /\ \E item \in Items : setA(item)
  /\ UNCHANGED <<script, repoPath, trackVars, timelineVars, moreVars>>

\* The gitcrumbs.setSnapshotB command: setB with any argument.
DiffSetB ==
  /\ \E item \in Items : setB(item)
  /\ UNCHANGED <<script, repoPath, trackVars, timelineVars, moreVars>>

\* DiffTreeView.clearSelection()
DiffClearSelection ==
  /\ a' = None
  /\ b' = None
  /\ changes' = <<>>
  /\ loadKey' = None
  /\ loading' = FALSE
  /\ UNCHANGED <<diffRuns, script, issued, repoPath, trackVars, timelineVars,
                 moreVars>>

\* DiffTreeView.openDiff(), up to its first await: it reloads when nothing is
\* shown and nothing is loading.
DiffOpenDiff ==
  /\ Truthy(a)
  /\ Truthy(b)
  /\ changes = <<>>
  /\ ~loading
  /\ reload(a, b)
  /\ UNCHANGED <<a, b, script, repoPath, trackVars, timelineVars, moreVars>>

\* reload() resumes after `await this.cli.run(..)` of frame f with exit `code`.
reloadResume(f, code) ==
  /\ loading' = FALSE
  /\ IF code # 0
       THEN /\ diffRuns' = (diffRuns (-) SetToBag({f}))
                             (+) SetToBag({DiffFrame(f.a, f.b, "showError")})
            /\ UNCHANGED changes
       ELSE /\ diffRuns' = diffRuns (-) SetToBag({f})
            /\ changes' = parseGitcrumbsDiff(stripAnsi(DiffStdout(f.a, f.b)))
  /\ UNCHANGED <<a, b, loadKey, issued>>

\* The diff subprocess of a suspended reload() closes.
DiffRunDone ==
  /\ \E f \in RunningDiffs : \E code \in ExitCodes : reloadResume(f, code)
  /\ UNCHANGED <<script, repoPath, trackVars, timelineVars, moreVars>>

\* reload() resumes after `await this.cli.showError(..)`: the user has
\* dismissed the error message.
DiffErrorDismissed ==
  /\ \E f \in BagToSet(diffRuns) :
       /\ f.phase = "showError"
       /\ diffRuns' = diffRuns (-) SetToBag({f})
       /\ changes' = <<>>
  /\ UNCHANGED <<a, b, loading, loadKey, script, issued, repoPath, trackVars,
                 timelineVars, moreVars>>

NextDiff ==
  \/ ChangeRepoPath
  \/ DiffSetA
  \/ DiffSetB
  \/ DiffClearSelection
  \/ DiffOpenDiff
  \/ DiffRunDone
  \/ DiffErrorDismissed

SpecDiff == Init /\ [][NextDiff]_vars

\* ------------------------------------------------- a scripted selection
\* The user, starting from the empty selection, runs setA(x), setB(x), setB(y)
\* for two snapshot ids x and y and nothing else; `pos` counts the commands
\* run so far.
ScriptIds == Ids \ {0}

NumberItem(n) == [tag |-> "number", n |-> n]

ScriptSetA ==
  /\ script = None
  /\ a = None /\ b = None /\ changes = <<>> /\ ~loading /\ loadKey = None
  /\ diffRuns = EmptyBag
  /\ \E x \in ScriptIds, y \in ScriptIds :
       /\ script' = Some([x |-> x, y |-> y, pos |-> 1])
       /\ setA(NumberItem(x))
  /\ UNCHANGED <<repoPath, trackVars, timelineVars, moreVars>>

ScriptSetB ==
  /\ script # None
  /\ script[1].pos \in {1, 2}
  /\ script' = Some([script[1] EXCEPT !.pos = @ + 1])
  /\ setB(NumberItem(IF script[1].pos = 1 THEN script[1].x ELSE script[1].y))
  /\ UNCHANGED <<repoPath, trackVars, timelineVars, moreVars>>

NextDiffScript ==
  \/ ScriptSetA
  \/ ScriptSetB
  \/ DiffRunDone
  \/ DiffErrorDismissed

SpecDiffScript == Init /\ [][NextDiffScript]_vars

\* What `gitcrumbs timeline` can print (exit 0).  Rows are
\* | # | Label | Created | Branch | Summary | Resumed-From |.
TableHeader ==
  <<"|", "#", "|", "Label", "|", "Created", "|", "Branch", "|", "Summary", "|",
    "Resumed-From", "|">>

\* No snapshot yet: borders and the header only.
TableEmpty == << <<"+----+">>, TableHeader, <<"+----+">> >>

\* Ids 1, 2, 3, oldest first; snapshot 2 wraps its summary onto a second line.
TableWrapped ==
  << <<"+----+">>, TableHeader,
     <<"|", "1", "|", "|", "2025-01-01", "10:00:00", "|", "main", "|",
       "1", "added", "|", "|">>,
     <<"|", "2", "|", "wip", "|", "2025-01-01", "10:05:00", "|", "main", "|",
       "2", "modified", "|", "1", "|">>,
     <<"|", "|", "|", "|", "|", "1", "deleted", "|", "|">>,
     <<"|", "3", "|", "|", "2025-01-02", "09:00:00", "|", "dev", "|",
       "1", "added", "|", "|">>,
     <<"+----+">> >>

\* Ids 2, 1, newest first, drawn with U+2502.
TableNewestFirst ==
  << <<"U+2502", "2", "U+2502", "U+2502", "2025-01-01", "10:05:00", "U+2502",
       "main", "U+2502", "2", "modified", "U+2502", "U+2502">>,
     <<"U+2502", "1", "U+2502", "U+2502", "2025-01-01", "10:00:00", "U+2502",
       "main", "U+2502", "1", "added", "U+2502", "U+2502">> >>

\* Two rows whose first cells, "1" and "01", are the same number.
TableSameId ==
  << <<"|", "1", "|", "|", "2025-01-01", "10:00:00", "|", "main", "|",
       "1", "added", "|", "|">>,
     <<"|", "2", "|", "|", "2025-01-01", "10:05:00", "|", "main", "|",
       "1", "added", "|", "|">>,
     <<"|", "01", "|", "again", "|", "2025-01-01", "10:09:00", "|", "main", "|",
       "1", "deleted", "|", "|">> >>

TimelineTables == {TableEmpty, TableWrapped, TableNewestFirst, TableSameId}

\* The CliResult values `gitcrumbs timeline` can produce.
TimelineResults ==
  {[code |-> 0, stdout |-> t] : t \in TimelineTables}
    \cup {[code |-> 1, stdout |-> <<>>]}

\* The CliResult values `gitcrumbs status` can produce.
StatusResults ==
  {[code |-> 0, stdout |-> << <<"Tracking:", "off">>,
                               <<"Cursor", "snapshot", "id:", w>> >>] :
      w \in {"1", "3"}}
    \cup {[code |-> 0, stdout |-> << <<"No", "snapshots", "yet">> >>],
          [code |-> 1, stdout |-> <<>>]}

Refreshes == 1..MaxRefresh

\* The return statements of refresh(), and its catch block.
Returned == {"retNoRepo", "retListFailed", "retOk", "caught"}

\* refresh() calls are numbered in the order they are made.
CanCall(r) ==
  /\ refreshes[r].pc = "idle"
  /\ \A q \in Refreshes : q < r => refreshes[q].pc # "idle"

\* Lines 29-32, 38-41: reset to empty, fire, return.
resetAndReturn(r, pc) ==
  /\ snapshots' = <<>>
  /\ currentId' = None
  /\ refreshes' = [refreshes EXCEPT ![r].pc = pc, ![r].settled = "resolved"]

\* Mutant of refreshStart: the `if (!repo)` branch is missing.
refreshStart_NoRepoCheck(r) ==
  /\ refreshes' = [refreshes EXCEPT ![r].pc = "list"]
  /\ UNCHANGED <<snapshots, currentId>>

\* refresh(), up to its first await.
refreshStart(r) ==
  IF repoPath = None
    THEN resetAndReturn(r, "retNoRepo")
    ELSE /\ refreshes' = [refreshes EXCEPT ![r].pc = "list"]
         /\ UNCHANGED <<snapshots, currentId>>

\* Mutant of refreshAfterList: a failed list command returns without resetting.
refreshAfterList_KeepsStale(r, res) ==
  IF res.code # 0
    THEN /\ refreshes' = [refreshes EXCEPT ![r].pc = "retListFailed",
                                           ![r].settled = "resolved",
                                           ![r].timelineRes = Some(res)]
         /\ UNCHANGED <<snapshots, currentId>>
    ELSE /\ snapshots' = parseTimelineFromCli(res.stdout)
         /\ refreshes' = [refreshes EXCEPT ![r].pc = "status",
                                           ![r].timelineRes = Some(res)]
         /\ UNCHANGED currentId

\* refresh() resumes after `await this.cli.run(["timeline"], repo)`.
refreshAfterList(r, res) ==
  IF res.code # 0
    THEN /\ snapshots' = <<>>
         /\ currentId' = None
         /\ refreshes' = [refreshes EXCEPT ![r].pc = "retListFailed",
                                           ![r].settled = "resolved",
                                           ![r].timelineRes = Some(res)]
    ELSE /\ snapshots' = parseTimelineFromCli(res.stdout)
         /\ refreshes' = [refreshes EXCEPT ![r].pc = "status",
                                           ![r].timelineRes = Some(res)]
         /\ UNCHANGED currentId

\* refresh() resumes after `await this.cli.run(["status"], repo)`.
refreshAfterStatus(r, res) ==
  /\ currentId' = parseCurrentIdFromStatus(res.stdout)
  /\ snapshots' = SortDesc(snapshots)
  /\ refreshes' = [refreshes EXCEPT ![r].pc = "retOk",
                                    ![r].settled = "resolved",
                                    ![r].statusRes = Some(res)]

\* Mutant of refreshCatch: the catch block logs and rethrows.
refreshCatch_Rethrows(r) ==
  /\ refreshes' = [refreshes EXCEPT ![r].pc = "caught", ![r].settled = "rejected"]
  /\ UNCHANGED <<snapshots, currentId>>

\* The catch block of refresh().
refreshCatch(r) ==
  /\ snapshots' = <<>>
  /\ currentId' = None
  /\ refreshes' = [refreshes EXCEPT ![r].pc = "caught", ![r].settled = "resolved"]

\* A caller (activate, the 30 s timer, a command, onSnapshotCreated) calls
\* timelineView.refresh().
RefreshCall ==
  /\ \E r \in Refreshes : CanCall(r) /\ refreshStart(r)
  /\ UNCHANGED <<repoPath, trackVars, diffVars, moreVars>>

\* The `gitcrumbs timeline` subprocess of call r closes.
RefreshListDone ==
  /\ \E r \in Refreshes : \E res \in TimelineResults :
       /\ refreshes[r].pc = "list"
       /\ refreshAfterList(r, res)
  /\ UNCHANGED <<repoPath, trackVars, diffVars, moreVars>>

\* The `gitcrumbs status` subprocess of call r closes.
RefreshStatusDone ==
  /\ \E r \in Refreshes : \E res \in StatusResults :
       /\ refreshes[r].pc = "status"
       /\ refreshAfterStatus(r, res)
  /\ UNCHANGED <<repoPath, trackVars, diffVars, moreVars>>

\* Something inside the try block of call r throws: an awaited command
\* rejects, or parsing or sorting raises.
RefreshThrow ==
  /\ \E r \in Refreshes :
       /\ refreshes[r].pc \in {"list", "status"}
       /\ refreshCatch(r)
  /\ UNCHANGED <<repoPath, trackVars, diffVars, moreVars>>

NextTimeline ==
  \/ ChangeRepoPath
  \/ RefreshCall
  \/ RefreshListDone
  \/ RefreshStatusDone
  \/ RefreshThrow

SpecTimeline == Init /\ [][NextTimeline]_vars

\* --------------------------------------- TimelineTreeView: commands
\* snapshotNow(), restore(item?), next(), previous() and rename(item?).
TimelineCommands == {"snapshot", "restore", "next", "previous", "rename"}

\* Command calls are numbered in the order they are made.
CanCommand(c) ==
  /\ tlCmds[c].pc = "idle"
  /\ \A d \in 1..MaxCmds : d < c => tlCmds[d].pc # "idle"

\* `const repo = this.store.repoPath(); if (!repo) return;` and then the
\* `await this.cli.run(..)` of the command.
RunOrReturn == IF repoPath = None THEN "returned" ELSE "run"

\* The frame of a command at `pc`; of a call that has returned only the
\* result of its gitcrumbs command, if it ran one, is kept.
CommandAt(name, pc, res) ==
  [name |-> IF pc = "returned" THEN "" ELSE name, pc |-> pc, res |-> res]

\* A command is called, up to its first await: restore() without an item
\* asks for the identifier first (pc "input"); rename() checks the
\* repository and asks for the identifier (pc "input") or, with an item, for
\* the new label (pc "label").
TimelineCommandCall ==
  /\ \E c \in 1..MaxCmds : \E name \in TimelineCommands : \E withItem \in BOOLEAN :
       /\ CanCommand(c)
       /\ tlCmds' = [tlCmds EXCEPT ![c] = CommandAt(name,
            CASE name = "restore" -> IF withItem THEN RunOrReturn ELSE "input"
              [] name = "rename" ->
                   IF repoPath = None THEN "returned"
                   ELSE IF withItem THEN "label" ELSE "input"
              [] OTHER -> RunOrReturn, None)]
  /\ UNCHANGED <<selecting, repoPath, trackVars, diffVars, timelineVars,
                 policyVars, cliVars, parseVars, activateVars>>

\* An input box of restore() or rename() is answered (`given`) or dismissed.
TimelineCommandInput ==
  /\ \E c \in 1..MaxCmds : \E given \in BOOLEAN :
       /\ tlCmds[c].pc \in {"input", "label"}
       /\ tlCmds' = [tlCmds EXCEPT ![c] = CommandAt(tlCmds[c].name,
            IF ~given THEN "returned"
            ELSE IF tlCmds[c].name = "restore" THEN RunOrReturn
            ELSE IF tlCmds[c].pc = "input" THEN "label" ELSE "run", None)]
  /\ UNCHANGED <<selecting, repoPath, trackVars, diffVars, timelineVars,
                 policyVars, cliVars, parseVars, activateVars>>

\* The command with the test of the exit code left out: it always goes on to
\* refresh().
commandDone_IgnoresCode(c, code) ==
  /\ \E r \in Refreshes : CanCall(r) /\ refreshStart(r)
  /\ tlCmds' = [tlCmds EXCEPT ![c] = CommandAt(@.name, "returned", Some(code))]

\* The command resumes after `await this.cli.run(..)`: on a non-zero exit
\* code it returns (rename() after showing the error, pc "error"); otherwise
\* it calls `await this.refresh()`, after which it does nothing more.
commandDone(c, code) ==
  IF code # 0
    THEN /\ tlCmds' = [tlCmds EXCEPT ![c] = CommandAt(@.name,
               IF @.name = "rename" THEN "error" ELSE "returned", Some(code))]
         /\ UNCHANGED timelineVars
    ELSE /\ \E r \in Refreshes : CanCall(r) /\ refreshStart(r)
         /\ tlCmds' = [tlCmds EXCEPT ![c] = CommandAt(@.name, "returned", Some(code))]

\* The gitcrumbs subprocess of command call c closes.
TimelineCommandDone ==
  /\ \E c \in 1..MaxCmds : \E code \in ExitCodes :
       /\ tlCmds[c].pc = "run"
       /\ commandDone(c, code)
  /\ UNCHANGED <<selecting, repoPath, trackVars, diffVars, policyVars,
                 cliVars, parseVars, activateVars>>

\* The error message of a failed rename is dismissed: rename() returns.
TimelineCommandErrorDismissed ==
  /\ \E c \in 1..MaxCmds :
       /\ tlCmds[c].pc = "error"
       /\ tlCmds' = [tlCmds EXCEPT ![c] = CommandAt(@.name, "returned", @.res)]
  /\ UNCHANGED <<selecting, repoPath, trackVars, diffVars, timelineVars,
                 policyVars, cliVars, parseVars, activateVars>>

\* The first refresh() call, made by activate() before any command can run.
InitialRefresh ==
  /\ \A r \in Refreshes : refreshes[r].pc = "idle"
  /\ \A c \in 1..MaxCmds : tlCmds[c].pc = "idle"
  /\ RefreshCall

\* The timeline view after activation, driven by its commands, with the
\* repository setting changing underneath.
NextCommands ==
  \/ ChangeRepoPath
  \/ InitialRefresh
  \/ TimelineCommandCall
  \/ TimelineCommandInput
  \/ TimelineCommandDone
  \/ TimelineCommandErrorDismissed
  \/ RefreshListDone
  \/ RefreshStatusDone
  \/ RefreshThrow

SpecCommands == Init /\ [][NextCommands]_vars

\* ------------------------------------- TrackRunner: subprocess output
\* The lines `gitcrumbs track` writes to stdout; "LF" is the line break.
SentinelLine == <<"Snapshot", "created:", "#42", "LF">>

OtherLine == <<"Watching", "LF">>

TrackLines == {SentinelLine, OtherLine}

\* s.includes("Snapshot created:")
includesSentinel(s) ==
  \E i \in 1..(Len(s) - 1) : s[i] = "Snapshot" /\ s[i + 1] = "created:"

\* String.prototype.trim on a chunk: line breaks at both ends are dropped.
RECURSIVE trim(_)
trim(s) ==
  IF s = <<>> THEN s
  ELSE IF Head(s) = "LF" THEN trim(Tail(s))
  ELSE IF s[Len(s)] = "LF" THEN trim(SubSeq(s, 1, Len(s) - 1))
  ELSE s

\* The tracking subprocess p writes one line to its stdout.
TrackWrite(p) ==
  /\ procState[p] = "alive"
  /\ linesOut < MaxLines
  /\ \E line \in TrackLines :
       /\ pipe' = [pipe EXCEPT ![p] = @ \o line]
       /\ sentinelsOut' = sentinelsOut + (IF includesSentinel(line) THEN 1 ELSE 0)
  /\ linesOut' = linesOut + 1
  /\ UNCHANGED <<proc, isRunning, procState, stateEvents, lastOp, infoShown,
                 snapshotEvents, revision>>
  /\ UNCHANGED <<repoPath, diffVars, timelineVars, moreVars>>

\* snapshotEmitter.fire(): the listener that activate() subscribed, if it has,
\* runs `void timelineView.refresh()`, a refresh() call up to its first await.
fireSnapshotCreated ==
  IF subscribed
    THEN \E r \in Refreshes : CanCall(r) /\ refreshStart(r)
    ELSE UNCHANGED timelineVars

\* The stdout "data" handler registered by start() on process p: the stream
\* hands over the first k pending tokens as one chunk.
TrackOnStdout(p) ==
  /\ procState[p] \in {"alive", "killed"}
  /\ \E k \in 1..Len(pipe[p]) :
       LET s == trim(SubSeq(pipe[p], 1, k)) IN
       /\ pipe' = [pipe EXCEPT ![p] = SubSeq(@, k + 1, Len(@))]
       /\ IF includesSentinel(s)
            THEN /\ revision' = revision + 1
                 /\ snapshotEvents' = snapshotEvents + 1
                 /\ fireSnapshotCreated
            ELSE UNCHANGED <<revision, snapshotEvents, timelineVars>>
  /\ lastOp' = "data"
  /\ UNCHANGED <<proc, isRunning, procState, stateEvents, infoShown, linesOut,
                 sentinelsOut>>
  /\ UNCHANGED <<repoPath, diffVars, moreVars>>

\* The life cycle together with the output of the subprocesses.
NextTrackOutput ==
  \/ TrackStart
  \/ TrackStop
  \/ \E p \in Procs : TrackOnClose(p)
  \/ \E p \in Procs : TrackWrite(p)
  \/ \E p \in Procs : TrackOnStdout(p)

SpecTrackOutput == Init /\ [][NextTrackOutput]_vars

\* ------------------------------------------------------- Cli actions
\* Cli calls are numbered in the order they are made.
CanCallCli(c) ==
  /\ cliCalls[c].kind = "none"
  /\ \A q \in Calls : q < c => cliCalls[q].kind # "none"

\* spawn(bin, args, ..): the child process object of a new call; the spawn
\* itself succeeds or fails (binary missing or not executable).
Spawn(kind, spawned) ==
  [NewCall EXCEPT !.kind = kind,
                  !.child = IF spawned THEN "alive" ELSE "spawnFailed"]

\* Cli.run(args, cwd): the promise executor.  It registers handlers for
\* stdout "data", stderr "data" and "close".
run(c, spawned) == cliCalls' = [cliCalls EXCEPT ![c] = Spawn("run", spawned)]

\* Cli.runRaw(bin, args, cwd): as run, and a handler for "error".
runRaw(c, spawned) == cliCalls' = [cliCalls EXCEPT ![c] = Spawn("runRaw", spawned)]

CliRun ==
  /\ \E c \in Calls, spawned \in BOOLEAN : CanCallCli(c) /\ run(c, spawned)
  /\ UNCHANGED <<repoPath, trackVars, diffVars, timelineVars, policyVars, parseVars, activateVars, commandVars>>

CliRunRaw ==
  /\ \E c \in Calls, spawned \in BOOLEAN : CanCallCli(c) /\ runRaw(c, spawned)
  /\ UNCHANGED <<repoPath, trackVars, diffVars, timelineVars, policyVars, parseVars, activateVars, commandVars>>

\* child.stdout.on("data", (b) => (stdout += b.toString()))
CliOnStdout ==
  /\ \E c \in Calls, chunk \in Chunks :
       /\ cliCalls[c].child = "alive"
       /\ cliCalls[c].nOut < MaxData
       /\ cliCalls' = [cliCalls EXCEPT ![c].stdout = @ \o chunk,
                                       ![c].nOut = @ + 1]
  /\ UNCHANGED <<repoPath, trackVars, diffVars, timelineVars, policyVars, parseVars, activateVars, commandVars>>

\* child.stderr.on("data", (b) => (stderr += b.toString()))
CliOnStderr ==
  /\ \E c \in Calls, chunk \in Chunks :
       /\ cliCalls[c].child = "alive"
       /\ cliCalls[c].nErr < MaxData
       /\ cliCalls' = [cliCalls EXCEPT ![c].stderr = @ \o chunk,
                                       ![c].nErr = @ + 1]
  /\ UNCHANGED <<repoPath, trackVars, diffVars, timelineVars, policyVars, parseVars, activateVars, commandVars>>

\* The first argument of the "close" event: the exit status, or null (None)
\* when the subprocess was ended by a signal.
CloseCode(exit) ==
  IF exit = "exit0" THEN Some(0) ELSE IF exit = "exit1" THEN Some(1) ELSE None

\* `code ?? 0`
OrZero(code) == IF code = None THEN 0 ELSE code[1]

\* child.on("close", (code) => resolve({ code: code ?? 0, stdout, stderr }))
\* for a subprocess that ran.
CliOnClose ==
  /\ \E c \in Calls, exit \in {"exit0", "exit1", "signal"} :
       LET f == cliCalls[c] IN
       /\ f.child = "alive"
       /\ cliCalls' = [cliCalls EXCEPT
            ![c].child = "closed",
            ![c].exit = exit,
            ![c].result = Resolve(f, [code |-> OrZero(CloseCode(exit)),
                                      stdout |-> f.stdout, stderr |-> f.stderr])]
  /\ UNCHANGED <<repoPath, trackVars, diffVars, timelineVars, policyVars, parseVars, activateVars, commandVars>>

\* The child process emits "error" after a failed spawn.  runRaw's handler
\* resolves the promise and "close" follows.  run registered no handler: the
\* emit throws, the exception leaves the event loop callback uncaught, and the
\* "close" event that the same callback would have emitted next may be lost.
CliOnError ==
  /\ \E c \in Calls :
       LET f == cliCalls[c] IN
       /\ f.child = "spawnFailed"
       /\ IF f.kind = "runRaw"
            THEN cliCalls' = [cliCalls EXCEPT
                   ![c].child = "errored",
                   ![c].exit = "spawn",
                   ![c].result = Resolve(f, [code |-> 127, stdout |-> "",
                                  stderr |-> "Failed to run " \o BinOf(f.kind)])]
            ELSE \E next \in {"errored", "dead"} :
                   cliCalls' = [cliCalls EXCEPT ![c].child = next,
                                                ![c].exit = "spawn",
                                                ![c].uncaught = TRUE]
  /\ UNCHANGED <<repoPath, trackVars, diffVars, timelineVars, policyVars, parseVars, activateVars, commandVars>>

\* The "close" handler after a failed spawn: the code is the negative errno.
CliOnCloseAfterError ==
  /\ \E c \in Calls, errno \in SpawnErrnos :
       LET f == cliCalls[c] IN
       /\ f.child = "errored"
       /\ cliCalls' = [cliCalls EXCEPT
            ![c].child = "closed",
            ![c].result = Resolve(f, [code |-> OrZero(Some(errno)),
                                      stdout |-> f.stdout, stderr |-> f.stderr])]
  /\ UNCHANGED <<repoPath, trackVars, diffVars, timelineVars, policyVars, parseVars, activateVars, commandVars>>

NextCli ==
  \/ CliRun
  \/ CliRunRaw
  \/ CliOnStdout
  \/ CliOnStderr
  \/ CliOnClose
  \/ CliOnError
  \/ CliOnCloseAfterError

SpecCli == Init /\ [][NextCli]_vars

\* ---------------------------------------------- start-tracking policy
\* The frame of an askToStartTrackingForRepo(.., path) call suspended at
\* `await showInformationMessage(.., "Yes", "No")` (pc "prompt": the prompt is
\* on screen), at `await store.setTrackingPreference(repoId, "auto")`
\* (pc "saved") or at `await store.setTrackingPreference(repoId, "never")`
\* (pc "declined").
AskFrame(path, pc) == [path |-> path, pc |-> pc]

\* The record of one askToStartTrackingForRepo(.., path) call; `tick` differs
\* between consecutive calls, so that a step holding a call changes `asked`.
AskedNow(path) ==
  Some([path |-> path, tick |-> IF asked = None THEN TRUE ELSE ~asked[1].tick])

\* askToStartTrackingForRepo with the test of the stored preference left out.
askToStartTrackingForRepo_AlwaysPrompts(path) ==
  /\ asked' = AskedNow(path)
  /\ BagCardinality(asks) < MaxAsks
  /\ asks' = asks (+) SetToBag({AskFrame(path, "prompt")})
  /\ UNCHANGED <<prefs, trackVars>>

\* askToStartTrackingForRepo(trackRunner, store, path), up to its first await.
askToStartTrackingForRepo(path) ==
  /\ asked' = AskedNow(path)
  /\ IF getTrackingPreference(repoIdForPath(path)) = Some("auto")
       THEN /\ start
            /\ UNCHANGED <<prefs, asks>>
       ELSE /\ BagCardinality(asks) < MaxAsks
            /\ asks' = asks (+) SetToBag({AskFrame(path, "prompt")})
            /\ UNCHANGED <<prefs, trackVars>>

\* maybeAutoInitGitcrumbsOnLoad or selectRepo reaches its call of
\* askToStartTrackingForRepo for a repository it found initialised.
PolicyAsk ==
  /\ \E path \in Repos : askToStartTrackingForRepo(path)
  /\ UNCHANGED <<repoPath, diffVars, timelineVars, cliVars, parseVars, activateVars, commandVars>>

\* What the call does with the answer to its prompt, up to its next await
\* (None: the prompt was dismissed and the call ends).
\* This variant stores nothing for "No".
promptAnswered_NoStoresNothing(f, choice) ==
  IF choice = Some("Yes")
    THEN /\ prefs' = setTrackingPreference(repoIdForPath(f.path), "auto")
         /\ asks' = (asks (-) SetToBag({f}))
                      (+) SetToBag({AskFrame(f.path, "saved")})
    ELSE IF choice = Some("No")
      THEN /\ asks' = (asks (-) SetToBag({f}))
                        (+) SetToBag({AskFrame(f.path, "declined")})
           /\ UNCHANGED prefs
      ELSE /\ asks' = asks (-) SetToBag({f})
           /\ UNCHANGED prefs

promptAnswered(f, choice) ==
  IF choice = Some("Yes")
    THEN /\ prefs' = setTrackingPreference(repoIdForPath(f.path), "auto")
         /\ asks' = (asks (-) SetToBag({f}))
                      (+) SetToBag({AskFrame(f.path, "saved")})
    ELSE IF choice = Some("No")
      THEN /\ prefs' = setTrackingPreference(repoIdForPath(f.path), "never")
           /\ asks' = (asks (-) SetToBag({f}))
                        (+) SetToBag({AskFrame(f.path, "declined")})
      ELSE /\ asks' = asks (-) SetToBag({f})
           /\ UNCHANGED prefs

\* The prompt of frame f is answered or dismissed; the call runs on to its
\* next await or to its end.
PolicyPromptAnswered ==
  /\ \E f \in BagToSet(asks), choice \in {Some("Yes"), Some("No"), None} :
       /\ f.pc = "prompt"
       /\ promptAnswered(f, choice)
  /\ UNCHANGED <<asked, repoPath, trackVars, diffVars, timelineVars, cliVars,
                 parseVars, activateVars, commandVars>>

\* The call resumes after `await store.setTrackingPreference(repoId, "auto")`
\* and calls start(), or after `await store.setTrackingPreference(repoId,
\* "never")` and ends.
PolicyResume ==
  /\ \E f \in BagToSet(asks) :
       /\ f.pc \in {"saved", "declined"}
       /\ asks' = asks (-) SetToBag({f})
       /\ IF f.pc = "saved" THEN start ELSE UNCHANGED trackVars
  /\ UNCHANGED <<prefs, asked, repoPath, diffVars, timelineVars, cliVars,
                 parseVars, activateVars, commandVars>>

\* ------------------------------------------- start and stop commands
\* The frame of a gitcrumbs.startTracking / gitcrumbs.stopTracking handler
\* suspended at its `await store.setTrackingPreference(..)` (pc "cmdStart" /
\* "cmdStop"); what it read from the store is not used after the await.
CommandFrame(pc) == AskFrame("", pc)

\* The gitcrumbs.startTracking handler, up to its await or to its end.
CmdStartTracking ==
  /\ IF repoPath # None
       THEN /\ BagCardinality(asks) < MaxAsks
            /\ prefs' = setTrackingPreference(repoIdForPath(repoPath[1]), "auto")
            /\ asks' = asks (+) SetToBag({CommandFrame("cmdStart")})
            /\ UNCHANGED trackVars
       ELSE /\ start
            /\ UNCHANGED <<prefs, asks>>
  /\ UNCHANGED <<asked, repoPath, diffVars, timelineVars, cliVars, parseVars, activateVars, commandVars>>

\* The gitcrumbs.stopTracking handler, up to its await or to its end.
CmdStopTracking ==
  /\ IF repoPath # None
       THEN /\ BagCardinality(asks) < MaxAsks
            /\ prefs' = setTrackingPreference(repoIdForPath(repoPath[1]), "never")
            /\ asks' = asks (+) SetToBag({CommandFrame("cmdStop")})
            /\ UNCHANGED trackVars
       ELSE /\ stop
            /\ UNCHANGED <<prefs, asks>>
  /\ UNCHANGED <<asked, repoPath, diffVars, timelineVars, cliVars, parseVars, activateVars, commandVars>>

\* A command handler resumes after its await: trackRunner.start() or
\* trackRunner.stop().
CmdResume ==
  /\ \E f \in BagToSet(asks) :
       /\ f.pc \in {"cmdStart", "cmdStop"}
       /\ asks' = asks (-) SetToBag({f})
       /\ IF f.pc = "cmdStart" THEN start ELSE stop
  /\ UNCHANGED <<prefs, asked, repoPath, diffVars, timelineVars, cliVars,
                 parseVars, activateVars, commandVars>>

\* An automatic stop that also stores the preference `never`.
autoStop_StoresNever ==
  /\ isRunning
  /\ stop
  /\ prefs' = IF repoPath = None THEN prefs
              ELSE setTrackingPreference(repoIdForPath(repoPath[1]), "never")

\* The automatic stops: the onDidChangeWorkspaceFolders handler; deactivate()
\* and selectRepo, after a folder was picked, run the same two lines.
autoStop ==
  /\ isRunning
  /\ stop
  /\ UNCHANGED prefs

AutoStop ==
  /\ autoStop
  /\ UNCHANGED <<asks, asked, repoPath, diffVars, timelineVars, cliVars,
                 parseVars, activateVars, commandVars>>

NextPolicy ==
  \/ ChangeRepoPath
  \/ PolicyAsk
  \/ PolicyPromptAnswered
  \/ PolicyResume
  \/ CmdStartTracking
  \/ CmdStopTracking
  \/ CmdResume
  \/ AutoStop

SpecPolicy == Init /\ [][NextPolicy]_vars

\* ------------------------------------------------------- activation
\* The frame of the maybeAutoInitGitcrumbsOnLoad(.., path) call with its
\* locals: the result of `git rev-parse --is-inside-work-tree` inside
\* isGitRepo (gitRes), the exit code of `gitcrumbs status` inside
\* isGitcrumbsInitialised (statusRes) and that of `gitcrumbs init` (initRes),
\* each None until the command has ended.  The call is suspended at
\* `await isGitRepo(..)` (pc "isGitRepo"), at
\* `await isGitcrumbsInitialised(..)` (pc "status"), at
\* `await cli.run(["init"], ..)` (pc "init") or at `await cli.showError(..)`
\* (pc "initError"); with pc "returned" it has returned or has reached its
\* last statement, the call of askToStartTrackingForRepo, and the locals
\* show what it had found.
AutoInitLocals(path, pc, gitRes, statusRes, initRes) ==
  Some([path |-> path, pc |-> pc, gitRes |-> gitRes,
        statusRes |-> statusRes, initRes |-> initRes])

\* The frame as the call starts.
AutoInitFrame(path, pc) == AutoInitLocals(path, pc, None, None, None)

\* The frame moved on to `pc`.
AutoInitAt(f, pc) ==
  AutoInitLocals(f.path, pc, f.gitRes, f.statusRes, f.initRes)

\* What `git rev-parse --is-inside-work-tree` can print and exit with.
GitStdouts == {"true", "false", ""}

GitResults == [code : ExitCodes, out : GitStdouts]

\* /true/i.test(res.stdout.trim())
matchesTrue(out) == out = "true"

\* isGitRepo with the test of the printed word left out.
isGitRepo_IgnoresStdout(res) == res.code = 0

\* isGitRepo for a non-empty path, from the result of the git command.
isGitRepo(res) == res.code = 0 /\ matchesTrue(res.out)

\* activate() from the end of runStartUpChecks (the fire-and-forget call of
\* maybeAutoInitGitcrumbsOnLoad when a repository is configured, which runs
\* to its first await) to `await timelineView.refresh()`: the views are
\* built, the onSnapshotCreated listener is subscribed, the commands are
\* registered and the first refresh() is called.  The code between these
\* points has no await on a subprocess or on the user, so nothing else runs
\* in between: subprocess events are delivered after pending promise
\* continuations.  This variant leaves the subscription out.
activate_NoSubscription ==
  /\ activation = "constructed"
  /\ activation' = "active"
  /\ autoInit' = IF repoPath = None THEN None
                 ELSE AutoInitFrame(repoPath[1], "isGitRepo")
  /\ UNCHANGED subscribed
  /\ \E r \in Refreshes : CanCall(r) /\ refreshStart(r)

activate ==
  /\ activation = "constructed"
  /\ activation' = "active"
  /\ autoInit' = IF repoPath = None THEN None
                 ELSE AutoInitFrame(repoPath[1], "isGitRepo")
  /\ subscribed' = TRUE
  /\ \E r \in Refreshes : CanCall(r) /\ refreshStart(r)

Activate ==
  /\ activate
  /\ UNCHANGED <<repoPath, trackVars, diffVars, policyVars, cliVars, parseVars, commandVars>>

\* maybeAutoInitGitcrumbsOnLoad resumes after `await isGitRepo(repoPath)`:
\* it ends (with a message) when the folder is not a Git repository.
AutoInitGitChecked ==
  /\ autoInit # None
  /\ autoInit[1].pc = "isGitRepo"
  /\ \E res \in GitResults :
       LET f == [autoInit[1] EXCEPT !.gitRes = Some(res)]
       IN  autoInit' = AutoInitAt(f, IF isGitRepo(res) THEN "status"
                                     ELSE "returned")
  /\ UNCHANGED <<activation, subscribed, repoPath, trackVars, diffVars,
                 timelineVars, policyVars, cliVars, parseVars, commandVars>>

\* It resumes after `gitcrumbs status` (exit 0: initialised, it goes on to
\* askToStartTrackingForRepo) or after `gitcrumbs init` (exit 0: the same;
\* otherwise it shows the error and waits for it to be dismissed).
AutoInitCommandDone ==
  /\ autoInit # None
  /\ autoInit[1].pc \in {"status", "init"}
  /\ \E code \in ExitCodes :
       LET f == IF autoInit[1].pc = "status"
                  THEN [autoInit[1] EXCEPT !.statusRes = Some(code)]
                  ELSE [autoInit[1] EXCEPT !.initRes = Some(code)]
       IN  IF code = 0
             THEN /\ autoInit' = AutoInitAt(f, "returned")
                  /\ askToStartTrackingForRepo(f.path)
             ELSE /\ autoInit' = AutoInitAt(f, IF f.pc = "status" THEN "init"
                                               ELSE "initError")
                  /\ UNCHANGED <<policyVars, trackVars>>
  /\ UNCHANGED <<activation, subscribed, repoPath, diffVars, timelineVars,
                 cliVars, parseVars, commandVars>>

\* The error message about the failed init is dismissed: the call returns.
AutoInitErrorDismissed ==
  /\ autoInit # None
  /\ autoInit[1].pc = "initError"
  /\ autoInit' = AutoInitAt(autoInit[1], "returned")
  /\ UNCHANGED <<activation, subscribed, repoPath, trackVars, diffVars,
                 timelineVars, policyVars, cliVars, parseVars, commandVars>>

\* The user runs gitcrumbs.startTracking, which exists once activate() has
\* registered the commands.
UserStartTracking ==
  /\ activation = "active"
  /\ CmdStartTracking

\* The extension from activation on: the start-up flow, the prompt, the start
\* command, and the output of the tracking subprocess with its listener.
NextActivate ==
  \/ Activate
  \/ AutoInitGitChecked
  \/ AutoInitCommandDone
  \/ AutoInitErrorDismissed
  \/ PolicyPromptAnswered
  \/ PolicyResume
  \/ UserStartTracking
  \/ CmdResume
  \/ \E p \in Procs : TrackWrite(p)
  \/ \E p \in Procs : TrackOnStdout(p)

SpecActivate == Init /\ [][NextActivate]_vars

\* --------------------------------------------------------- selectRepo
\* The frame of the selectRepo(..) call: `path` is picked[0].fsPath once a
\* folder was picked, `pc` the await it is suspended at: showOpenDialog
\* ("picker"), cfg.update ("update"), isGitRepo ("isGitRepo"), the question
\* whether to initialise Git ("askInitGit"), `git init` ("gitInit"), its error
\* message ("gitInitError"), isGitcrumbsInitialised ("status"),
\* `gitcrumbs init` ("init"), its error message ("initError"), or
\* askToStartTrackingForRepo ("policy"); `stopped` tells whether the call
\* found the tracker running after the pick and stopped it.
SelectFrame(path, pc, stopped) ==
  Some([path |-> path, pc |-> pc, stopped |-> stopped])

\* The gitcrumbs.selectRepo command is run: the folder picker opens.
SelectRepoCall ==
  /\ selecting = None
  /\ selecting' = SelectFrame("", "picker", FALSE)
  /\ UNCHANGED <<tlCmds, repoPath, trackVars, diffVars, timelineVars,
                 policyVars, cliVars, parseVars, activateVars>>

\* selectRepo with the two lines that stop a running tracker left out.
selectPicked_NoStop(picked) ==
  IF picked = None
    THEN /\ selecting' = None
         /\ UNCHANGED trackVars
    ELSE /\ selecting' = SelectFrame(picked[1], "update", isRunning)
         /\ UNCHANGED trackVars

\* selectRepo resumes after showOpenDialog: it returns when nothing was
\* picked; otherwise it stops the tracker if that is running and calls
\* cfg.update("repoPath", ..).
selectPicked(picked) ==
  IF picked = None
    THEN /\ selecting' = None
         /\ UNCHANGED trackVars
    ELSE /\ selecting' = SelectFrame(picked[1], "update", isRunning)
         /\ IF isRunning THEN stop ELSE UNCHANGED trackVars

SelectRepoPicked ==
  /\ selecting # None
  /\ selecting[1].pc = "picker"
  /\ \E picked \in {None} \cup {Some(q) : q \in Repos} : selectPicked(picked)
  /\ UNCHANGED <<tlCmds, repoPath, diffVars, timelineVars, policyVars,
                 cliVars, parseVars, activateVars>>

\* The configuration update has been applied: Store.repoPath() returns the
\* picked path from now on, and selectRepo goes on to isGitRepo.
SelectRepoStored ==
  /\ selecting # None
  /\ selecting[1].pc = "update"
  /\ repoPath' = Some(selecting[1].path)
  /\ selecting' = SelectFrame(selecting[1].path, "isGitRepo",
                              selecting[1].stopped)
  /\ UNCHANGED <<tlCmds, trackVars, diffVars, timelineVars, policyVars,
                 cliVars, parseVars, activateVars>>

\* `await timelineView.refresh(); actionsView.refresh(); return;`
selectRefresh ==
  /\ \E r \in Refreshes : CanCall(r) /\ refreshStart(r)
  /\ selecting' = None

\* selectRepo moves on to its next await without calling refresh().
selectGoto(pc) ==
  /\ selecting' = SelectFrame(selecting[1].path, pc, selecting[1].stopped)
  /\ UNCHANGED timelineVars

\* The call of askToStartTrackingForRepo for the picked path: with the
\* preference `auto` it completes without a real suspension and refresh()
\* follows at once; otherwise selectRepo waits for the prompt.
selectPolicy ==
  /\ askToStartTrackingForRepo(selecting[1].path)
  /\ IF getTrackingPreference(repoIdForPath(selecting[1].path)) = Some("auto")
       THEN selectRefresh
       ELSE selectGoto("policy")

\* selectRepo resumes after one of its awaits behind the configuration
\* update, with the result of the awaited command or the answer of the user.
SelectRepoResume ==
  /\ selecting # None
  /\ LET pc == selecting[1].pc
         path == selecting[1].path
     IN \/ /\ pc = "isGitRepo"
           /\ \E res \in GitResults :
                selectGoto(IF isGitRepo(res) THEN "status" ELSE "askInitGit")
           /\ UNCHANGED <<policyVars, trackVars>>
        \/ /\ pc = "askInitGit"
           /\ \E yes \in BOOLEAN :
                IF yes THEN selectGoto("gitInit") ELSE selectRefresh
           /\ UNCHANGED <<policyVars, trackVars>>
        \/ /\ pc = "gitInit"
           /\ \E code \in ExitCodes :
                selectGoto(IF code # 0 THEN "gitInitError" ELSE "init")
           /\ UNCHANGED <<policyVars, trackVars>>
        \/ /\ pc \in {"gitInitError", "initError"}
           /\ selectRefresh
           /\ UNCHANGED <<policyVars, trackVars>>
        \/ /\ pc \in {"status", "init"}
           /\ \E code \in ExitCodes :
                IF code = 0
                  THEN selectPolicy
                  ELSE /\ selectGoto(IF pc = "status" THEN "init"
                                     ELSE "initError")
                       /\ UNCHANGED <<policyVars, trackVars>>
        \/ /\ pc = "policy"
           /\ \A f \in BagToSet(asks) : f.path # path
           /\ selectRefresh
           /\ UNCHANGED <<policyVars, trackVars>>
  /\ UNCHANGED <<tlCmds, repoPath, diffVars, cliVars, parseVars, activateVars>>

\* Switching repository while the tracker is used: selectRepo, the start
\* command and the prompt of the start policy.
NextSelect ==
  \/ SelectRepoCall
  \/ SelectRepoPicked
  \/ SelectRepoStored
  \/ SelectRepoResume
  \/ PolicyPromptAnswered
  \/ PolicyResume
  \/ CmdStartTracking
  \/ CmdResume

SpecSelect == Init /\ [][NextSelect]_vars

\* ------------------------------------------- printed snapshot tables
\* A snapshot table is a sequence of logical rows; `gitcrumbs timeline` prints
\* each on one or more visual lines.
RowIds == {"1", "2", "3"}

\* How a logical row is laid out:
\*   oneLine        everything on one line
\*   wrappedSummary the summary continues on a second line
\*   dateThenTime   the date on the first line, the time on the second
\*   dateThenTimes  as dateThenTime, and a third line with another time
\*   stampThenTime  date and time on the first line, a time on the second
RowShapes ==
  {"oneLine", "wrappedSummary", "dateThenTime", "dateThenTimes", "stampThenTime"}

LogicalRows == [id : RowIds, shape : RowShapes]

DateWord == "2025-01-01"

TimeWord == "10:00:00"

LaterTimeWord == "11:30:00"

\* The cells of one visual line; absent fields are empty cells.
LineCells(id, label, created, summary) ==
  [id |-> id, label |-> label, created |-> created, branch |-> <<"main">>,
   summary |-> summary, resumed |-> <<>>]

ContinuationCells(created, summary) ==
  [id |-> <<>>, label |-> <<>>, created |-> created, branch |-> <<>>,
   summary |-> summary, resumed |-> <<>>]

\* The visual lines of a logical row, as cells.
RowLines(row) ==
  LET id == <<row.id>>
      stamp == <<DateWord, TimeWord>>
  IN CASE row.shape = "oneLine" ->
            << LineCells(id, <<"wip">>, stamp, <<"1", "added">>) >>
       [] row.shape = "wrappedSummary" ->
            << LineCells(id, <<>>, stamp, <<"2", "modified">>),
               ContinuationCells(<<>>, <<"1", "deleted">>) >>
       [] row.shape = "dateThenTime" ->
            << LineCells(id, <<>>, <<DateWord>>, <<"1", "added">>),
               ContinuationCells(<<TimeWord>>, <<>>) >>
       [] row.shape = "dateThenTimes" ->
            << LineCells(id, <<>>, <<DateWord>>, <<"1", "added">>),
               ContinuationCells(<<TimeWord>>, <<>>),
               ContinuationCells(<<LaterTimeWord>>, <<>>) >>
       [] row.shape = "stampThenTime" ->
            << LineCells(id, <<>>, stamp, <<"1", "added">>),
               ContinuationCells(<<LaterTimeWord>>, <<>>) >>

\* One visual line in the six-column layout (# Label Created Branch Summary
\* Resumed-From) or in the five-column layout without Label.
PrintLine(cells, hasLabel, glyph) ==
  <<glyph>> \o cells.id \o <<glyph>>
    \o (IF hasLabel THEN cells.label \o <<glyph>> ELSE <<>>)
    \o cells.created \o <<glyph>> \o cells.branch \o <<glyph>>
    \o cells.summary \o <<glyph>> \o cells.resumed \o <<glyph>>

RECURSIVE PrintRows(_, _, _)
PrintRows(rows, hasLabel, glyph) ==
  IF rows = <<>> THEN <<>>
  ELSE LET ls == RowLines(Head(rows))
       IN [i \in 1..Len(ls) |-> PrintLine(ls[i], hasLabel, glyph)]
            \o PrintRows(Tail(rows), hasLabel, glyph)

\* The whole output: border, header line, border, rows, border.
PrintTable(t) ==
  << <<"+----+">>,
     PrintLine([id |-> <<"#">>, label |-> <<"Label">>, created |-> <<"Created">>,
                branch |-> <<"Branch">>, summary |-> <<"Summary">>,
                resumed |-> <<"Resumed-From">>], t.hasLabel, t.glyph),
     <<"+----+">> >>
    \o PrintRows(t.rows, t.hasLabel, t.glyph)
    \o << <<"+----+">> >>

\* `gitcrumbs timeline` starts printing: the layout is that of the installed
\* tool version.
TablePrintHeader ==
  /\ tableIn = None
  /\ \E hasLabel \in BOOLEAN, glyph \in Bars :
       tableIn' = Some([hasLabel |-> hasLabel, glyph |-> glyph, rows |-> <<>>])
  /\ UNCHANGED <<parseOut, docIn, docOut, repoPath, trackVars, diffVars,
                 timelineVars, policyVars, cliVars, activateVars, commandVars>>

\* It prints one more logical row.
TablePrintRow ==
  /\ tableIn # None
  /\ parseOut = None
  /\ Len(tableIn[1].rows) < MaxRows
  /\ \E row \in LogicalRows :
       tableIn' = Some([tableIn[1] EXCEPT !.rows = Append(@, row)])
  /\ UNCHANGED <<parseOut, docIn, docOut, repoPath, trackVars, diffVars,
                 timelineVars, policyVars, cliVars, activateVars, commandVars>>

\* refresh() hands the finished output to parseTimelineFromCli.
ParseTable ==
  /\ tableIn # None
  /\ parseOut = None
  /\ parseOut' = Some(parseTimelineFromCli(PrintTable(tableIn[1])))
  /\ UNCHANGED <<tableIn, docIn, docOut, repoPath, trackVars, diffVars,
                 timelineVars, policyVars, cliVars, activateVars, commandVars>>

NextParse ==
  \/ TablePrintHeader
  \/ TablePrintRow
  \/ ParseTable

SpecParse == Init /\ [][NextParse]_vars

\* ------------------------------------- outputs with rows and stray lines
\* The rows `gitcrumbs diff a b --all` can print: a category, a count and the
\* list of file names (each a sequence of words); an empty list is printed as
\* an empty cell or as the placeholder "(none)".
FileLists ==
  { <<>>, << <<"a.txt">> >>, << <<"a.txt">>, <<"sub", "dir/b.txt">> >> }

DiffRows ==
  {r \in [cat : Categories, count : {"0", "00", "2"}, files : FileLists,
          placeholder : BOOLEAN] : r.placeholder => r.files = <<>>}

\* names.join(", ")
RECURSIVE JoinComma(_)
JoinComma(names) ==
  IF names = <<>> THEN <<>>
  ELSE IF Len(names) = 1 THEN names[1]
  ELSE names[1] \o <<",">> \o JoinComma(Tail(names))

\* One row of the diff table; the category is coloured when `colour` is set.
PrintDiffRow(row, glyph, colour) ==
  <<glyph>>
    \o (IF colour THEN <<"ESC[32m", row.cat, "ESC[0m">> ELSE <<row.cat>>)
    \o <<glyph, row.count, glyph>>
    \o (IF row.placeholder THEN <<"(none)">> ELSE JoinComma(row.files))
    \o <<glyph>>

\* Lines that are not rows of the table being printed:
\*   noBorder      a line that does not start with a border
\*   tooFewCells   a bordered line with fewer cells than a row has
\*   tooManyCells  a bordered line with one cell more than a row has
\*   header        the header line of the table (in a snapshot table it has the
\*                 shape of a continuation line: six cells, no id)
\*   continuation  (snapshot table) a continuation line
StrayKinds(kind) ==
  {"noBorder", "tooFewCells", "tooManyCells", "header"}
    \cup (IF kind = "timeline" THEN {"continuation"} ELSE {})

StrayLine(kind, stray, glyph) ==
  IF stray = "noBorder" THEN <<"gitcrumbs", "1.2.0">>
  ELSE IF stray = "tooFewCells" THEN <<glyph, "2", glyph, "x", glyph>>
  ELSE IF kind = "timeline"
    THEN (IF stray = "tooManyCells"
            THEN <<glyph, "4", glyph, "x", glyph, "y", glyph, DateWord, TimeWord,
                   glyph, "main", glyph, "1", "added", glyph, glyph>>
          ELSE IF stray = "header"
            THEN <<glyph, "#", glyph, "Label", glyph, "Created", glyph, "Branch",
                   glyph, "Summary", glyph, "Resumed-From", glyph>>
          ELSE PrintLine(ContinuationCells(<<>>, <<"1", "deleted">>), TRUE, glyph))
    ELSE (IF stray = "tooManyCells"
            THEN <<glyph, "Added", glyph, "2", glyph, "x.txt", glyph, "y", glyph>>
          ELSE <<glyph, "Category", glyph, "Count", glyph, "Files", glyph>>)

\* The items of an output in print order: rows (stray = "") and stray lines.
RowItem(row) == [stray |-> "", row |-> row]

StrayItem(kind, stray) ==
  [stray |-> stray,
   row |-> IF kind = "timeline" THEN [id |-> "1", shape |-> "oneLine"]
           ELSE [cat |-> "Added", count |-> "0", files |-> <<>>,
                 placeholder |-> FALSE]]

\* The visual lines of one item.
ItemLines(doc, item) ==
  IF item.stray # "" THEN << StrayLine(doc.kind, item.stray, doc.glyph) >>
  ELSE IF doc.kind = "timeline"
    THEN LET ls == RowLines(item.row)
         IN [i \in 1..Len(ls) |-> PrintLine(ls[i], TRUE, doc.glyph)]
    ELSE << PrintDiffRow(item.row, doc.glyph, doc.glyph = "U+2502") >>

RECURSIVE PrintItems(_, _)
PrintItems(doc, items) ==
  IF items = <<>> THEN <<>>
  ELSE ItemLines(doc, Head(items)) \o PrintItems(doc, Tail(items))

\* The text of the output, and the text of its rows alone.
DocText(doc) == PrintItems(doc, doc.items)

DocRows(doc) ==
  LET IsRow(item) == item.stray = "" IN SelectSeq(doc.items, IsRow)

\* What the view that reads the output makes of a text: TimelineTreeView
\* calls parseTimelineFromCli, DiffTreeView parseGitcrumbsDiff(stripAnsi(..)).
ParseText(kind, text) ==
  IF kind = "timeline" THEN parseTimelineFromCli(text)
  ELSE parseGitcrumbsDiff(stripAnsi(text))

\* A gitcrumbs command starts printing: a snapshot table (six columns) or a
\* diff table, drawn with ASCII borders or with box-drawing borders and
\* colours.
DocBegin ==
  /\ docIn = None
  /\ \E kind \in {"timeline", "diff"}, glyph \in Bars :
       docIn' = Some([kind |-> kind, glyph |-> glyph, items |-> <<>>])
  /\ UNCHANGED <<docOut, tableIn, parseOut, repoPath, trackVars, diffVars,
                 timelineVars, policyVars, cliVars, activateVars, commandVars>>

\* It prints one more row.
DocPrintRow ==
  /\ docIn # None
  /\ docOut = None
  /\ Len(docIn[1].items) < MaxRows
  /\ \E row \in (IF docIn[1].kind = "timeline" THEN LogicalRows ELSE DiffRows) :
       docIn' = Some([docIn[1] EXCEPT !.items = Append(@, RowItem(row))])
  /\ UNCHANGED <<docOut, tableIn, parseOut, repoPath, trackVars, diffVars,
                 timelineVars, policyVars, cliVars, activateVars, commandVars>>

\* It prints a line that is not a row; in a snapshot table a line with the
\* shape of a continuation line is stray only where no row precedes it.
DocPrintStray ==
  /\ docIn # None
  /\ docOut = None
  /\ Len(docIn[1].items) < MaxRows
  /\ \E stray \in StrayKinds(docIn[1].kind) :
       /\ (docIn[1].kind = "timeline" /\ stray \in {"continuation", "header"})
            => DocRows(docIn[1]) = <<>>
       /\ docIn' = Some([docIn[1] EXCEPT
                           !.items = Append(@, StrayItem(docIn[1].kind, stray))])
  /\ UNCHANGED <<docOut, tableIn, parseOut, repoPath, trackVars, diffVars,
                 timelineVars, policyVars, cliVars, activateVars, commandVars>>

\* The view hands the finished output to its parser.
DocParse ==
  /\ docIn # None
  /\ docOut = None
  /\ docOut' = Some(ParseText(docIn[1].kind, DocText(docIn[1])))
  /\ UNCHANGED <<docIn, tableIn, parseOut, repoPath, trackVars, diffVars,
                 timelineVars, policyVars, cliVars, activateVars, commandVars>>

NextText ==
  \/ DocBegin
  \/ DocPrintRow
  \/ DocPrintStray
  \/ DocParse

SpecText == Init /\ [][NextText]_vars

\* ------------------------------------------------------------ C1
\* C1: at no moment are two diff subprocess invocations for the same (a,b)
\* pair in flight.
C1_NoDuplicateDiffInFlight ==
  \A f \in RunningDiffs : CopiesIn(f, diffRuns) <= 1

\* ------------------------------------------------------------ C2
\* C2: when a diff invocation started for a pair completes after the selected
\* pair has changed to a different pair, its result is discarded: the step
\* that completes it leaves `changes` as it was.
C2_StaleResultDiscarded ==
  [][\A f \in RunningDiffs :
       (/\ CopiesIn(f, diffRuns') < CopiesIn(f, diffRuns)
        /\ Truthy(a) /\ Truthy(b)
        /\ <<a[1], b[1]>> # <<f.a, f.b>>)
       => changes' = changes]_vars

\* ------------------------------------------------------------ C3
\* C3: a diff invocation that completes in the state clearSelection() left
\* (a and b unset, changes empty, no key, not loading) does not resurrect
\* stale data: a and b stay unset and changes stays empty.
C3_NoResurrectionAfterClear ==
  [][\A f \in RunningDiffs :
       (/\ CopiesIn(f, diffRuns') < CopiesIn(f, diffRuns)
        /\ a = None /\ b = None /\ changes = <<>>
        /\ loadKey = None /\ ~loading)
       => (a' = None /\ b' = None /\ changes' = <<>>)]_vars

\* ------------------------------------------------------------ C4
\* C4: for every sequence of start(), stop() and close events, at most one
\* tracking subprocess launched by the supervisor is alive (spawned and not
\* yet closed) at any moment.
C4_AtMostOneTrackingProcess == Cardinality(AliveProcs) <= 1

\* ------------------------------------------- TimelineTreeView claims
\* This step is the one in which refresh() call r returns.
Completes(r) ==
  refreshes[r].pc \notin Returned /\ refreshes'[r].pc \in Returned

\* A refresh() call that has returned does nothing more.
StaysReturned(r) ==
  refreshes[r].pc \in Returned => refreshes'[r] = refreshes[r]

\* Call r received a non-empty table before the state at hand.
GotRows(r) ==
  /\ refreshes[r].timelineRes # None
  /\ refreshes[r].timelineRes[1].code = 0
  /\ parseTimelineFromCli(refreshes[r].timelineRes[1].stdout) # <<>>

IdsDescending(rows) ==
  \A i \in 1..(Len(rows) - 1) : rows[i].id >= rows[i + 1].id

IdsStrictlyDescending(rows) ==
  \A i \in 1..(Len(rows) - 1) : rows[i].id > rows[i + 1].id

IdsDistinct(rows) ==
  \A i, j \in 1..Len(rows) : i # j => rows[i].id # rows[j].id

\* ------------------------------------------------------------ C5
\* C5: after every reconcile in which the list command succeeded (the call
\* returns from the end of the try block), currentId is absent or is the id
\* of some element of snapshots.
C5_CurrentIdIsListed ==
  [][\A r \in Refreshes :
       (refreshes[r].pc # "retOk" /\ refreshes'[r].pc = "retOk")
       => \/ currentId' = None
          \/ \E i \in 1..Len(snapshots') : snapshots'[i].id = currentId'[1]]_vars

\* ------------------------------------------------------------ C6
\* C6: a reconcile whose list command exits non-zero leaves snapshots empty
\* and currentId absent, whatever they were, and runs no status command: the
\* call returns in that step, with no status result, and does nothing more.
C6_ListFailureResets ==
  [][\A r \in Refreshes :
       /\ (/\ refreshes[r].pc = "list"
           /\ refreshes'[r].timelineRes # None
           /\ refreshes'[r].timelineRes[1].code # 0)
          => (/\ snapshots' = <<>>
              /\ currentId' = None
              /\ refreshes'[r].pc = "retListFailed"
              /\ refreshes'[r].statusRes = None)
       /\ (refreshes[r].pc = "retListFailed" => StaysReturned(r))]_vars

\* C6's case: a list command has failed after an earlier call had received
\* rows, and the state is empty.
C6_Witness ==
  \E q, r \in Refreshes :
    /\ q < r
    /\ refreshes[q].pc = "retOk"
    /\ GotRows(q)
    /\ refreshes[r].pc = "retListFailed"
    /\ snapshots = <<>>
    /\ currentId = None

\* ------------------------------------------------------------ C7
\* C7: a reconcile called when no repository path is configured ends with
\* snapshots empty and currentId absent, from any prior state, and invokes no
\* external command: the call returns in that step with no command result,
\* and does nothing more.
C7_NoRepoResets ==
  [][\A r \in Refreshes :
       /\ (/\ refreshes[r].pc = "idle"
           /\ refreshes'[r].pc # "idle"
           /\ repoPath = None)
          => (/\ snapshots' = <<>>
              /\ currentId' = None
              /\ refreshes'[r].pc = "retNoRepo"
              /\ refreshes'[r].timelineRes = None
              /\ refreshes'[r].statusRes = None)
       /\ (refreshes[r].pc = "retNoRepo" => StaysReturned(r))]_vars

\* C7's case: a call made without a repository has returned after an earlier
\* call had received rows, and the state is empty.
C7_Witness ==
  \E q, r \in Refreshes :
    /\ q < r
    /\ refreshes[q].pc = "retOk"
    /\ GotRows(q)
    /\ refreshes[r].pc = "retNoRepo"
    /\ snapshots = <<>>
    /\ currentId = None

DerivedState(f) ==
  IF f.pc = "retOk"
    THEN <<SortDesc(parseTimelineFromCli(f.timelineRes[1].stdout)),
           parseCurrentIdFromStatus(f.statusRes[1].stdout)>>
    ELSE <<<<>>, None>>

\* The calls made so far.
Called == {r \in Refreshes : refreshes[r].pc # "idle"}

\* C9: once the calls made have all completed, each after running both its
\* commands, snapshots and currentId are both the ones derived from the
\* later-started call's command outputs, in whatever order the sub-commands
\* completed.
C9_LaterCallWins ==
  (/\ Called # {}
   /\ \A r \in Called : refreshes[r].pc = "retOk")
  => LET last == CHOOSE r \in Called : \A q \in Called : q <= r
     IN <<snapshots, currentId>> = DerivedState(refreshes[last])

\* ------------------------------------------------------------ C10
\* C10: an exception raised at any step of reconcile results in snapshots
\* empty and currentId absent, and is not propagated: the promise of the call
\* is fulfilled, not rejected.
C10_ExceptionResets ==
  [][\A r \in Refreshes :
       (refreshes[r].pc # "caught" /\ refreshes'[r].pc = "caught")
       => (/\ snapshots' = <<>>
           /\ currentId' = None
           /\ refreshes'[r].settled = "resolved")]_vars

\* C10's case: a call threw after it had stored the rows of its table, and
\* the state is empty.
C10_Witness ==
  \E r \in Refreshes :
    /\ refreshes[r].pc = "caught"
    /\ GotRows(r)
    /\ refreshes[r].settled = "resolved"
    /\ snapshots = <<>>
    /\ currentId = None

\* ------------------------------------------------- TrackRunner claims
\* This step is a call of start(): only ChangeRepoPath leaves lastOp alone.
StartStep == lastOp' = "start" /\ repoPath' = repoPath

\* This step is a call of stop().
StopStep == lastOp' = "stop" /\ repoPath' = repoPath

\* ------------------------------------------------------------ C11
\* C11: whenever a tracking subprocess terminates (its close event arrives),
\* after a crash or after an explicit kill, the supervisor ends in Stopped (no
\* handle held, isRunning false) and one running-state-changed(false) event is
\* emitted in that step.
C11_TerminationStops ==
  [][\A p \in Procs :
       (procState[p] \in {"alive", "killed"} /\ procState'[p] = "closed")
       => (/\ proc' = None
           /\ isRunning' = FALSE
           /\ stateEvents' = Append(stateEvents, FALSE))]_vars

\* C11's case: two subprocesses have terminated, one by itself and one after
\* stop() (three false events for one stop and two close events), and the
\* supervisor is Stopped.
C11_Witness ==
  /\ procState[1] = "closed"
  /\ procState[2] = "closed"
  /\ stateEvents = <<TRUE, FALSE, TRUE, FALSE, FALSE>>
  /\ lastOp = "close"
  /\ proc = None
  /\ ~isRunning

\* ------------------------------------------------------------ C12
\* C12: stop() called when no tracking subprocess is running (no handle is
\* held) changes no supervisor state, signals no process and emits no
\* running-state-changed event.
C12_StopWhenStoppedIsNoOp ==
  [][(StopStep /\ proc = None)
     => (/\ proc' = None
         /\ isRunning' = isRunning
         /\ procState' = procState
         /\ stateEvents' = stateEvents
         /\ infoShown' = infoShown)]_vars

\* C12's case: the only subprocess ended by itself, stop() was called
\* afterwards, and the single false event is the one of the close handler.
C12_Witness ==
  /\ lastOp = "stop"
  /\ procState[1] = "closed"
  /\ procState[2] = "unspawned"
  /\ stateEvents = <<TRUE, FALSE>>
  /\ proc = None
  /\ ~isRunning

\* ------------------------------------------------------------ C13
\* C13: every stdout line of the tracking subprocess that contains the
\* sentinel triggers exactly one snapshot-created event, however the lines are
\* grouped into chunks, and lines without it trigger none: once all written
\* output has been delivered, the events emitted are as many as the sentinel
\* lines written.
C13_OneEventPerSentinelLine ==
  (\A p \in Procs : pipe[p] = <<>>) => snapshotEvents = sentinelsOut

\* ------------------------------------------------------------ C14
\* C14: start() called with no configured repository path while Stopped
\* launches no subprocess, leaves the supervisor Stopped (no handle, isRunning
\* false), emits no running-state-changed event and reports the condition with
\* the "Open a repository first." message.
C14_StartWithoutRepo ==
  [][(StartStep /\ repoPath = None /\ proc = None)
     => (/\ procState' = procState
         /\ proc' = None
         /\ isRunning' = FALSE
         /\ stateEvents' = stateEvents
         /\ OpenRepoFirst \in infoShown')]_vars

\* C14's case: after a subprocess was started and stopped the repository path
\* was removed, start() was called, and it fired nothing and launched nothing.
C14_Witness ==
  /\ lastOp = "start"
  /\ repoPath = None
  /\ stateEvents = <<TRUE, FALSE>>
  /\ procState[2] = "unspawned"
  /\ proc = None
  /\ ~isRunning
  /\ OpenRepoFirst \in infoShown

\* ------------------------------------------------------------ C15
\* C15: when the stored tracking preference of a repository is `never`, the
\* startup policy does not show the start-tracking prompt for it: no step
\* taken in such a state puts a prompt for that repository on screen.
C15_NeverMeansNoPrompt ==
  [][\A path \in Repos :
       getTrackingPreference(repoIdForPath(path)) = Some("never")
       => CopiesIn(AskFrame(path, "prompt"), asks')
            <= CopiesIn(AskFrame(path, "prompt"), asks)]_vars

\* ------------------------------------------------------------ C16
\* C16: when the binary cannot be found or spawned, the call completes with a
\* result whose exitCode is 127, whose stdout is empty and whose stderr is a
\* non-empty description; it neither hangs (the subprocess object is finished
\* and the promise is unresolved) nor throws.
C16_SpawnFailureIs127 ==
  \A c \in Calls :
    (cliCalls[c].exit = "spawn" /\ cliCalls[c].child \in {"closed", "dead"})
    => (/\ ~cliCalls[c].uncaught
        /\ cliCalls[c].result # None
        /\ cliCalls[c].result[1].code = 127
        /\ cliCalls[c].result[1].stdout = ""
        /\ cliCalls[c].result[1].stderr # "")

\* ------------------------------------------------------------ C17
\* C17: for a subprocess that ran and ended, the call does not throw and the
\* returned exitCode is 0 exactly when the subprocess exited with status 0: a
\* non-zero exit and an end by a signal both give a non-zero exitCode.
C17_ZeroOnlyForExitZero ==
  \A c \in Calls :
    (cliCalls[c].child = "closed" /\ cliCalls[c].exit \in {"exit0", "exit1", "signal"})
    => (/\ ~cliCalls[c].uncaught
        /\ cliCalls[c].result # None
        /\ (cliCalls[c].result[1].code = 0 <=> cliCalls[c].exit = "exit0"))

C19_BothLayouts ==
  parseOut # None => Len(parseOut[1]) = Len(tableIn[1].rows)

\* ------------------------------------------------------------ C20
\* C20: the createdAt of every record is the full timestamp of its row: when
\* the first line carries the date only and a continuation line the time only,
\* the two are merged, and a time-only fragment that comes after a time is
\* recorded does not change it.
C20_DateAndTimeMerged ==
  (parseOut # None /\ tableIn[1].hasLabel)
  => \A k \in 1..Len(parseOut[1]) :
       parseOut[1][k].created_at = DateWord \o " " \o TimeWord

\* ------------------------------------------------------------ C21
\* C21: both parsers skip malformed lines silently: for an output made of
\* complete rows and of lines that do not start with a border, lines with the
\* wrong number of cells, header lines and continuation lines before any row,
\* the parser returns what it returns for the rows alone.
C21_MalformedLinesSkipped ==
  docOut # None
  => docOut[1] = ParseText(docIn[1].kind,
                           PrintItems(docIn[1], DocRows(docIn[1])))

\* The diff table has no stray lines.
OnlyDiffRows ==
  /\ docIn[1].kind = "diff"
  /\ DocRows(docIn[1]) = docIn[1].items

\* A row lists no files: its count is zero, or its file cell is empty or the
\* placeholder.
ListsNothing(row) == row.count \in {"0", "00"} \/ row.files = <<>>

\* The entries a row stands for: one per listed file, in the listed order.
EntriesOf(row) ==
  IF ListsNothing(row) THEN <<>>
  ELSE [i \in 1..Len(row.files) |->
          [path |-> JoinWords(row.files[i]),
           kind |-> CASE row.cat = "Added" -> "A"
                      [] row.cat = "Modified" -> "M"
                      [] row.cat = "Deleted" -> "D"]]

RECURSIVE EntriesOfRows(_)
EntriesOfRows(items) ==
  IF items = <<>> THEN <<>>
  ELSE EntriesOf(Head(items).row) \o EntriesOfRows(Tail(items))

\* ------------------------------------------------------------ C22
\* C22: for a diff table, a row of category C with a count that is not zero
\* and the file list f1, .., fk contributes exactly k entries, in the listed
\* order, each with the trimmed path fi and the kind of C; the result is the
\* concatenation of these in row order.
C22_OneEntryPerListedFile ==
  (docOut # None /\ OnlyDiffRows)
  => docOut[1] = EntriesOfRows(docIn[1].items)

\* A table whose rows are Added with two files and Deleted with one.
C22_Witness ==
  /\ docOut # None
  /\ OnlyDiffRows
  /\ docIn[1].glyph = "U+2502"
  /\ docOut[1] = << [path |-> "a.txt", kind |-> "A"],
                    [path |-> "sub dir/b.txt", kind |-> "A"],
                    [path |-> "a.txt", kind |-> "D"] >>

\* ------------------------------------------------------------ C23
\* C23: a diff table in which every row has a zero count, an empty file cell
\* or the placeholder as its file cell yields no entries, whatever the other
\* cells of the rows hold.
C23_EmptyRowsYieldNothing ==
  (/\ docOut # None
   /\ OnlyDiffRows
   /\ \A k \in 1..Len(docIn[1].items) : ListsNothing(docIn[1].items[k].row))
  => docOut[1] = <<>>

\* A table of two such rows was parsed: a row that lists two files under the
\* count 0, and a row with the count 2 and the placeholder.
C23_Witness ==
  /\ docOut = Some(<<>>)
  /\ OnlyDiffRows
  /\ Len(docIn[1].items) = 2
  /\ docIn[1].items[1].row.count = "0"
  /\ Len(docIn[1].items[1].row.files) = 2
  /\ docIn[1].items[2].row.count = "2"
  /\ docIn[1].items[2].row.placeholder

\* ------------------------------------------------------------ C24
\* C24: once setA(x), setB(x), setB(y) have been run from the empty selection
\* with a repository configured, for two different snapshot ids x and y (the
\* claim's 5 and 7), exactly one diff has been started for <<x, y>>, whether
\* the diff for <<x, x>> has completed in between or not.
C24_OneDiffForFinalPair ==
  (/\ script # None
   /\ script[1].pos = 3
   /\ script[1].x # script[1].y
   /\ repoPath # None)
  => CopiesIn(<<script[1].x, script[1].y>>, issued) = 1

\* The three commands were run for x = 1, y = 2 and the diff for <<1, 1>> was
\* still running when setB(2) started the diff for <<1, 2>>.
C24_Witness ==
  /\ script = Some([x |-> 1, y |-> 2, pos |-> 3])
  /\ repoPath # None
  /\ issued = SetToBag({<<1, 1>>, <<1, 2>>})
  /\ diffRuns = SetToBag({DiffFrame(1, 1, "run"), DiffFrame(1, 2, "run")})

\* The same, with the diff for <<1, 1>> completed before setB(2).
C24_WitnessCompleted ==
  /\ script = Some([x |-> 1, y |-> 2, pos |-> 3])
  /\ repoPath # None
  /\ issued = SetToBag({<<1, 1>>, <<1, 2>>})
  /\ diffRuns = SetToBag({DiffFrame(1, 2, "run")})
  /\ ~(\E k \in 1..Len(changes) : changes[k].path = "f1_2")

\* ------------------------------------------------------------ C25
\* C25: in the step in which the diff command for the selected pair ends with
\* a non-zero exit code (its reload() goes on to show the error) while the
\* entries of an earlier successful reload of that pair are on show and no
\* other diff is in flight, loading becomes false and `changes` is empty.
C25_FailedDiffEmptiesChanges ==
  [][\A f \in RunningDiffs :
       (/\ CopiesIn(f, diffRuns') < CopiesIn(f, diffRuns)
        /\ CopiesIn(DiffFrame(f.a, f.b, "showError"), diffRuns')
             > CopiesIn(DiffFrame(f.a, f.b, "showError"), diffRuns)
        /\ a = Some(f.a) /\ b = Some(f.b)
        /\ BagCardinality(diffRuns) = 1
        /\ changes = parseGitcrumbsDiff(stripAnsi(DiffStdout(f.a, f.b))))
       => (~loading' /\ changes' = <<>>)]_vars

\* ------------------------------------------------------------ C26
\* C26: a step that sets a or b and finds a unset, b unset or no repository
\* configured leaves `changes` empty and starts no diff subprocess; a step
\* that starts a diff subprocess starts it for the selected pair, with both
\* ids set and a repository configured.
C26_NoDiffWithoutPairAndRepo ==
  [][/\ ((a' # a \/ b' # b) /\ (a' = None \/ b' = None \/ repoPath = None))
        => /\ changes' = <<>>
           /\ \A f \in BagToSet(diffRuns') :
                f.phase = "run" => CopiesIn(f, diffRuns') <= CopiesIn(f, diffRuns)
     /\ \A f \in BagToSet(diffRuns') :
          (f.phase = "run" /\ CopiesIn(f, diffRuns') > CopiesIn(f, diffRuns))
          => (a' = Some(f.a) /\ b' = Some(f.b) /\ repoPath # None)]_vars

\* Both ids were set with no repository configured: nothing is shown, nothing
\* was started and no key is held.
C26_Witness ==
  /\ repoPath = None
  /\ Truthy(a)
  /\ Truthy(b)
  /\ a # b
  /\ changes = <<>>
  /\ loadKey = None
  /\ ~loading
  /\ diffRuns = EmptyBag

\* A frame equal to f was added to / removed from the suspended calls.
FrameAdded(f) == CopiesIn(f, asks') > CopiesIn(f, asks)

FrameRemoved(f) == CopiesIn(f, asks') < CopiesIn(f, asks)

\* The preferences after storing `pref` for the repository at `path`.
Stored(path, pref) == setTrackingPreference(repoIdForPath(path), pref)

\* ------------------------------------------------------------ C27
\* C27: the stored preferences change only in a step of the start command
\* (which stores `auto` for the configured repository), of the stop command
\* (`never`), or in the step that takes the answer to the prompt (Yes: `auto`,
\* No: `never`, for the prompted repository); a step in which the tracker is
\* stopped without a command or prompt frame being involved, as the automatic
\* stops are, leaves the preferences unchanged.
C27_OnlyExplicitChoicesStore ==
  [][/\ prefs' # prefs
        => \/ /\ repoPath # None
              /\ FrameAdded(CommandFrame("cmdStart"))
              /\ prefs' = Stored(repoPath[1], "auto")
           \/ /\ repoPath # None
              /\ FrameAdded(CommandFrame("cmdStop"))
              /\ prefs' = Stored(repoPath[1], "never")
           \/ \E path \in Repos :
                /\ FrameRemoved(AskFrame(path, "prompt"))
                /\ \/ /\ FrameAdded(AskFrame(path, "saved"))
                      /\ prefs' = Stored(path, "auto")
                   \/ /\ FrameAdded(AskFrame(path, "declined"))
                      /\ prefs' = Stored(path, "never")
     /\ (isRunning /\ ~isRunning' /\ asks' = asks) => prefs' = prefs]_vars

\* The start command stored `auto` for repoA and started the tracker, an
\* automatic stop ended it, and `auto` is still the only stored preference.
C27_Witness ==
  /\ repoPath = Some("repoA")
  /\ DOMAIN prefs = {repoIdForPath("repoA")}
  /\ prefs[repoIdForPath("repoA")] = "auto"
  /\ asked = None
  /\ asks = EmptyBag
  /\ stateEvents = <<TRUE, FALSE>>
  /\ lastOp = "stop"
  /\ proc = None

\* ------------------------------------------------------------ C28
\* C28: every snapshot-created event leads to a reconcile being started: a
\* step that emits the event is taken with the subscription in place, emits
\* one event and makes exactly one more refresh() call.
C28_EveryEventReconciles ==
  [][snapshotEvents' # snapshotEvents
       => /\ subscribed
          /\ snapshotEvents' = snapshotEvents + 1
          /\ Cardinality(Called') = Cardinality(Called) + 1]_vars

\* The tracker, started after activation, has reported one snapshot: the
\* refresh() call of activate() and the one of the listener have been made.
C28_Witness ==
  /\ snapshotEvents = 1
  /\ subscribed
  /\ proc # None
  /\ Cardinality(Called) = 2

\* This step holds a call of askToStartTrackingForRepo for `path`.
AskStep(path) == asked' # asked /\ asked'[1].path = path

\* ------------------------------------------------------------ C29
\* C29: when the policy is consulted for a repository whose stored preference
\* is `auto`, that step calls start() (which spawns the tracker if none is
\* held and a repository is configured), puts no prompt on screen and leaves
\* the stored preferences unchanged.
C29_AutoStartsWithoutPrompt ==
  [][\A path \in Repos :
       (AskStep(path)
          /\ getTrackingPreference(repoIdForPath(path)) = Some("auto"))
       => /\ lastOp' = "start"
          /\ (proc = None /\ repoPath # None) => (proc' # None /\ isRunning')
          /\ asks' = asks
          /\ prefs' = prefs]_vars

\* After an automatic stop the policy was consulted for repoA, whose stored
\* preference is `auto`, and a second tracker runs with no prompt pending.
C29_Witness ==
  /\ asked # None
  /\ asked[1].path = "repoA"
  /\ repoPath = Some("repoA")
  /\ getTrackingPreference(repoIdForPath("repoA")) = Some("auto")
  /\ lastOp = "start"
  /\ stateEvents = <<TRUE, FALSE, TRUE>>
  /\ isRunning
  /\ asks = EmptyBag

\* ------------------------------------------------------------ C30
\* C30: when the policy is consulted for a repository with no stored
\* preference, that step puts the prompt on screen and changes neither the
\* preferences nor the tracker.  The step that takes the answer stores `auto`
\* and goes on to the start() call (Yes), stores `never` and goes on to the
\* end of the call (No), or stores nothing and ends the call (dismissed);
\* when the call resumes, it calls start() after Yes and leaves the tracker
\* alone after No.
C30_PromptWhenNoPreference ==
  [][\A path \in Repos :
       /\ (AskStep(path) /\ getTrackingPreference(repoIdForPath(path)) = None)
          => /\ asks' = asks (+) SetToBag({AskFrame(path, "prompt")})
             /\ UNCHANGED <<prefs, trackVars>>
       /\ FrameRemoved(AskFrame(path, "prompt"))
          => /\ UNCHANGED trackVars
             /\ \/ /\ asks' = (asks (-) SetToBag({AskFrame(path, "prompt")}))
                                (+) SetToBag({AskFrame(path, "saved")})
                   /\ prefs' = Stored(path, "auto")
                \/ /\ asks' = (asks (-) SetToBag({AskFrame(path, "prompt")}))
                                (+) SetToBag({AskFrame(path, "declined")})
                   /\ prefs' = Stored(path, "never")
                \/ /\ asks' = asks (-) SetToBag({AskFrame(path, "prompt")})
                   /\ prefs' = prefs
       /\ FrameRemoved(AskFrame(path, "saved"))
          => /\ lastOp' = "start"
             /\ (proc = None /\ repoPath # None) => (proc' # None /\ isRunning')
             /\ prefs' = prefs
       /\ FrameRemoved(AskFrame(path, "declined"))
          => UNCHANGED <<prefs, trackVars>>]_vars

\* The prompt for repoA was answered No: `never` is stored for it, the call
\* has ended and the tracker was never touched.
C30_Witness ==
  /\ asked # None
  /\ asked[1].path = "repoA"
  /\ DOMAIN prefs = {repoIdForPath("repoA")}
  /\ prefs[repoIdForPath("repoA")] = "never"
  /\ asks = EmptyBag
  /\ lastOp = "none"
  /\ proc = None

\* ------------------------------------------------------------ C31
\* What maybeAutoInitGitcrumbsOnLoad has found: the folder is a Git
\* repository (git exited 0 and printed true) and gitcrumbs is initialised in
\* it (`gitcrumbs status` exited 0, or `gitcrumbs init` did).
FoundInitialised(f) ==
  /\ f # None
  /\ f[1].gitRes = Some([code |-> 0, out |-> "true"])
  /\ \/ f[1].statusRes = Some(0)
     \/ f[1].initRes = Some(0)

\* This step starts the tracker on behalf of the start-up flow: start() is
\* called by askToStartTrackingForRepo itself or when it resumes after the
\* Yes answer was stored.
OnLoadStart ==
  /\ StartStep
  /\ \E path \in Repos :
       AskStep(path) \/ FrameRemoved(AskFrame(path, "saved"))

\* C31: on load, a step that consults the start-tracking policy or starts the
\* tracker for the start-up flow is taken only when the flow has found the
\* repository path to be a Git repository with gitcrumbs initialised in it.
C31_OnLoadNeedsInitialisedRepo ==
  [][((\E path \in Repos : AskStep(path)) \/ OnLoadStart)
       => FoundInitialised(autoInit')]_vars

\* gitcrumbs was not initialised, `gitcrumbs init` succeeded, the policy was
\* consulted, no prompt is pending and the tracker runs.
C31_Witness ==
  /\ autoInit # None
  /\ autoInit[1].statusRes = Some(1)
  /\ autoInit[1].initRes = Some(0)
  /\ asked # None
  /\ asks = EmptyBag
  /\ isRunning
  /\ lastOp = "start"
  /\ stateEvents = <<TRUE>>
\* ------------------------------------------------------------ C32
\* Command call c resumes in this step with the exit code of its command.
CommandEnds(c) == tlCmds[c].res = None /\ tlCmds'[c].res # None

\* C32: when the gitcrumbs command of snapshot, restore, next, previous or
\* rename ends with a non-zero exit code, that step leaves snapshots and
\* currentId unchanged and makes no refresh() call; when it ends with exit
\* code 0, that step makes exactly one refresh() call.
C32_FailedCommandKeepsTimeline ==
  [][\A c \in 1..MaxCmds :
       CommandEnds(c)
       => IF tlCmds'[c].res[1] # 0
            THEN /\ snapshots' = snapshots
                 /\ currentId' = currentId
                 /\ Called' = Called
            ELSE Cardinality(Called') = Cardinality(Called) + 1]_vars

\* A rename has failed after an earlier refresh() had listed snapshots: its
\* error message is on screen, the snapshots are still shown and only that
\* one refresh() call was made.
C32_Witness ==
  /\ \E c \in 1..MaxCmds :
       /\ tlCmds[c].name = "rename"
       /\ tlCmds[c].pc = "error"
       /\ tlCmds[c].res = Some(1)
  /\ snapshots # <<>>
  /\ currentId # None
  /\ Cardinality(Called) = 1

\* A command has exited 0 after the first refresh() had completed, and the
\* refresh() call it made has listed the snapshots.
C32_WitnessReconciled ==
  /\ \E c \in 1..MaxCmds : tlCmds[c].res = Some(0)
  /\ Cardinality(Called) = 2
  /\ \A r \in Called : refreshes[r].pc = "retOk"
  /\ snapshots # <<>>
\* ------------------------------------------------------------ C33
\* This step applies the configuration update of a selectRepo call that
\* switches to another repository and had found the tracker running.
SwitchStored ==
  /\ selecting # None
  /\ selecting[1].pc = "update"
  /\ selecting[1].stopped
  /\ selecting' # selecting
  /\ repoPath' # repoPath

\* This step is selectRepo resuming from a cancelled folder picker.
PickerCancelled ==
  /\ selecting # None
  /\ selecting[1].pc = "picker"
  /\ selecting' = None

\* C33: when the user switches repository while the tracker is running, no
\* tracker is running and no subprocess is held at the moment the new path
\* is stored, so that a tracker running under the new path can only come
\* from a start() call made after the switch; a cancelled folder picker
\* leaves the tracker and the repository path as they were.
C33_StoppedBeforePathStored ==
  [][/\ SwitchStored => (~isRunning' /\ proc' = None)
     /\ PickerCancelled
          => UNCHANGED <<repoPath, proc, isRunning, procState, stateEvents>>]_vars

\* The part of C33 about the order inside selectRepo: the subprocess held
\* when the folder was picked has been signalled, and a stop was announced,
\* before the path is stored.
C33_HeldProcessKilledFirst ==
  [][SwitchStored
       => /\ \E i \in 1..Len(stateEvents) : ~stateEvents[i]
          /\ \A p \in Procs :
               (proc = Some(p)) => \E q \in Procs : q < p /\ procState[q] \in {"killed", "closed"}]_vars

\* The part of C33 about the folder picker.
C33_CancelChangesNothing ==
  [][PickerCancelled
       => UNCHANGED <<repoPath, proc, isRunning, procState, stateEvents>>]_vars
\* ------------------------------------------------------------ C34
\* C34: when the close event of a subprocess that stop() had already
\* signalled arrives while a subprocess started afterwards is held, that
\* step leaves isRunning true and the handle of the new process in place.
C34_LateCloseKeepsNewProcess ==
  [][\A p \in Procs :
       (/\ procState[p] = "killed"
        /\ procState'[p] = "closed"
        /\ proc # None
        /\ proc[1] # p)
       => (isRunning' /\ proc' = proc)]_vars
\* ------------------------------------------------------------ C35
\* C35: the running-state-changed events emitted so far alternate, starting
\* with true: the first, third, ... are true and the second, fourth, ... are
\* false, so no two consecutive events are false.
C35_StateEventsAlternate ==
  \A i \in 1..Len(stateEvents) : stateEvents[i] = (i % 2 = 1)
\* ------------------------------------------------------------ C36
\* C36: a step that emits a snapshot-created event is taken while the
\* supervisor is Running, and the output that triggers it comes from the
\* subprocess the supervisor holds, not from one that stop() has signalled.
C36_NoEventsAfterStop ==
  [][snapshotEvents' # snapshotEvents
       => /\ isRunning
          /\ proc # None
          /\ pipe'[proc[1]] # pipe[proc[1]]]_vars
\* ------------------------------------------------------------ C37
\* C37: loading is true exactly when a diff subprocess started by reload()
\* has not completed yet.
C37_LoadingIffInFlight == loading <=> (RunningDiffs # {})

\* The two directions of C37.
C37_LoadingWhileInFlight == (RunningDiffs # {}) => loading

C37_NotLoadingWhenIdle == loading => (RunningDiffs # {})
\* ------------------------------------------------------------ C38
\* What the view shows for the pair <<x, y>> after a successful diff.
ParsedDiff(x, y) == parseGitcrumbsDiff(stripAnsi(DiffStdout(x, y)))

\* In this step the diff subprocess of frame f ends with exit code 0.
DiffSucceeds(f) ==
  /\ CopiesIn(f, diffRuns') < CopiesIn(f, diffRuns)
  /\ CopiesIn(DiffFrame(f.a, f.b, "showError"), diffRuns')
       = CopiesIn(DiffFrame(f.a, f.b, "showError"), diffRuns)

\* C38: when the last diff invocation in flight succeeds, with a and b set, a
\* repository configured and the successful result of the selected pair
\* already on show (its command was the last one for that pair and exited 0),
\* `changes` is the parsed result for the selected pair afterwards too,
\* whichever invocation it was that completed last.
C38_ChangesMatchSelectedPair ==
  [][\A f \in RunningDiffs :
       (/\ DiffSucceeds(f)
        /\ diffRuns' = EmptyBag
        /\ Truthy(a) /\ Truthy(b)
        /\ repoPath # None
        /\ ParsedDiff(a[1], b[1]) # <<>>
        /\ changes = ParsedDiff(a[1], b[1]))
       => changes' = ParsedDiff(a[1], b[1])]_vars
\* ------------------------------------------------------------ C39
\* The first part of C39: snapshots is sorted by id descending in every
\* state, those in which a refresh() is suspended included.
C39_AlwaysSorted == IdsDescending(snapshots)

\* The second part of C39: in every state snapshots and currentId are the
\* empty state or the pair one refresh() call derived from its two commands.
C39_AlwaysPaired ==
  \/ <<snapshots, currentId>> = <<<<>>, None>>
  \/ \E r \in Called :
       /\ refreshes[r].pc = "retOk"
       /\ <<snapshots, currentId>> = DerivedState(refreshes[r])

\* C39: at every point where other work can observe the timeline state, also
\* while a refresh() is suspended between its list command and its status
\* command, snapshots is sorted by id descending and is paired with the
\* currentId of the same reconcile.
C39_SortedAndPairedAtEveryPoint == C39_AlwaysSorted /\ C39_AlwaysPaired
====
